---- MODULE Spec2Model ----
(***************************************************************************)
(* Concurrency runtime of lang-bmb (bmb/runtime/bmb_runtime.c): the        *)
(* bounded MPSC channel and the barrier, modelled as state machines.       *)
(*                                                                         *)
(* Every function of the channel takes ch->lock on entry and releases it   *)
(* on return or inside a condition wait, so one action is one critical     *)
(* section: from taking the lock to the next wait or to the return.        *)
(* A thread inside pthread_cond_wait / SleepConditionVariableCS is "wait"; *)
(* once signalled, broadcast to or spuriously woken it is "ready" (it      *)
(* still has to take the lock again); a timed wait whose deadline passed   *)
(* is "timedout" (it, too, still has to take the lock again).              *)
(***************************************************************************)
EXTENDS Integers, Sequences, FiniteSets, TLC

\* ------------------------------------------------------------------ bounds
MaxCap == 2        \* channel capacities 1..MaxCap
MaxSends == 3      \* send / try_send / send_timeout calls in a run
MaxRecvs == 3      \* receive calls in a run
LiveCap == 1       \* channel capacities in the runs checked for liveness
LiveCalls == 4     \* sends and receives together in a run of the fair specification
RoundCalls == 1    \* sends, and receives, between two restarts of the histories
MaxRounds == 2     \* barrier generations in a run
MaxThreshold == 3  \* barrier thresholds 1..MaxThreshold
MaxUnlocks == 3    \* unlock / write_unlock calls in a run
MaxDepth == 2      \* times a thread enters the mutex it already holds
MaxClones == 3     \* bmb_arc_clone calls in a run
MaxWorkers == 2    \* thread pools of 1..MaxWorkers workers
MaxTasks == 3      \* bmb_thread_pool_execute calls in a run

TimeoutMs == {-1, 1}
Platforms == {"posix", "win32"}

Receiver == 0
Senders == {1, 2}
Owner == 3   \* the thread that created the channel: it clones and closes
Holders == Senders \cup {Owner}
Threads == {Receiver} \cup Senders

VARIABLES
    platform,      \* which side of #ifdef _WIN32 was compiled
    lim,           \* [sends, recvs]: how many calls the environment makes
    capacity, buffer, head, tail, count, sender_count, closed,   \* BmbChannel
    handles,       \* the sender threads that own a BmbSender
    pc,            \* per thread: idle / wait / ready / timedout
    op,            \* per thread: the call in progress, "none" when idle
    arg,           \* per sender: the value of the send in progress
    ms,            \* per thread: timeout_ms of the timed call in progress
    out,           \* the receiver's *value_out
    last,          \* [op, ret]: the call that returned in the latest step and
                   \* its result; NoCall when the latest step returned nothing
    nsend,         \* number of send / try_send / send_timeout calls started
    nrecv,         \* number of receive calls started
    enq,           \* history: the values enqueued, in order
    recvd,         \* history: the values dequeued, in order
    snap,          \* history: the buffered values at the first close
    drain,         \* history: <<flag, value>> of each try_recv that returned
                   \* after the first close
    mixed,         \* history: another receive call returned after the close
    avail          \* history: per thread, the timed call in progress has seen,
                   \* before its deadline, a state in which it could proceed

chanVars == <<platform, lim, capacity, buffer, head, tail, count, sender_count,
              closed, handles, pc, op, arg, ms, out, last, nsend, nrecv, enq,
              recvd, snap, drain, mixed, avail>>

\* The barrier (BmbBarrier) and the threads that call bmb_barrier_wait.
VARIABLES
    threshold, b_count, generation,   \* BmbBarrier (b_count is its count)
    bpc,           \* per thread: idle / wait / ready
    gen,           \* per thread: the local gen of its call
    is_leader,     \* per thread: the local is_leader of its call
    arrivals,      \* history: per generation, the calls that arrived in it
    leaders,       \* history: per generation, the calls that returned 1
    followers      \* history: per generation, the calls that returned 0

barrierVars == <<threshold, b_count, generation, bpc, gen, is_leader, arrivals,
                 leaders, followers>>

\* The locks (BmbMutex, BmbCondvar) and the threads that use them.
VARIABLES
    holds,         \* the platform mutex: per thread, how often it has entered
    m_data,        \* BmbMutex.data
    lpc,           \* per thread: idle / locking / cvwait / cvready /
                   \* reading / writing
    hval,          \* per thread: the value its latest lock, try_lock or wait
                   \* returned, as it has updated it since
    llast,         \* [t, op, ret]: the call that returned in the latest step
    m_unlocked,    \* history: the value of the latest unlock (at first the
                   \* initial value)
    nunlock        \* history: number of unlock calls

mutexVars == <<holds, m_data, hval, m_unlocked, nunlock>>

\* The reader-writer lock (BmbRwLock).
VARIABLES
    rw_readers,    \* the platform lock: per thread, the read locks it holds
    rw_writers,    \* the platform lock: the threads that hold it for
                   \* writing
    rw_data,       \* BmbRwLock.data
    rval,          \* per thread: the value its latest read, write, try_read
                   \* or try_write returned
    rw_written,    \* history: the value of the latest write_unlock (at first
                   \* the initial value)
    nwrite         \* history: number of write_unlock calls

rwVars == <<rw_readers, rw_writers, rw_data, rval, rw_written, nwrite>>

lockVars == <<mutexVars, lpc, llast, rwVars>>

\* The Arc (BmbArcInner) and the threads that own handles of it.
VARIABLES
    refcount,      \* BmbArcInner.refcount
    a_data,        \* BmbArcInner.data
    owned,         \* per thread: the handles it owns and has not dropped
    freed,         \* number of free(inner) calls
    stale,         \* a call has touched the Arc after free(inner)
    alast,         \* [op, ret]: the call made in the latest step
    nclone,        \* history: number of clone calls
    ndrop          \* history: number of drop calls

arcVars == <<refcount, a_data, owned, freed, stale, alast, nclone, ndrop>>

\* The thread pool (BmbThreadPool), its workers and the thread that owns it.
VARIABLES
    num_workers, task_queue, shutdown, active_tasks,   \* BmbThreadPool
                   \* (task_queue is the list from task_head to task_tail)
    wpc,           \* per worker: top / wait / ready / run / done / exited
    wtask,         \* per worker: the task it dequeued last
    ppc,           \* the owner: open / joining / joined
    counter,       \* the counter every task increments
    ran,           \* history: the tasks that have run to completion
    nexec,         \* history: number of execute calls
    early,         \* history: number of execute calls made before the
                   \* shutdown flag was set
    at_join,       \* history: the queue when join requested the shutdown
    live_at_join,  \* history: a worker had not yet exited then
    discarded      \* history: the tasks join freed without running them

poolVars == <<num_workers, task_queue, shutdown, active_tasks, wpc, wtask, ppc,
              counter, ran, nexec, early, at_join, live_at_join, discarded>>

\* A scope (BmbScope), the thread that owns it and the threads it spawns.
VARIABLES
    scope_threads, \* BmbScope.threads: the list of nodes, newest first
    scope_freed,   \* the scope has been destroyed and freed
    child,         \* per spawned thread: none / running / done / killed
    spc,           \* the owner: open / spawning / joining / returned
    snode,         \* the thread a spawn in flight has created
    joining,       \* wait's local list of nodes still to join
    joined,        \* history: the threads wait has joined
    registered,    \* history: the threads spawn has linked into the list
    nspawn         \* history: number of spawn calls

scopeVars == <<scope_threads, scope_freed, child, spc, snode, joining, joined,
               registered, nspawn>>

\* An event loop (BmbEventLoop), the descriptors the kernel knows and the
\* thread that runs the loop.
VARIABLES
    backend,       \* the build: epoll / poll (WSAPoll is as poll)
    entries,       \* BmbEventLoop.entries, indexed from 0
    entry_count, stopped,
    ep,            \* epoll backend: the kernel's interest list of epoll_fd,
                   \* descriptor -> event mask (NoWatch where not a member)
    ready,         \* the kernel: per descriptor the events it is ready for
    rpc,           \* run_once: idle / dispatch / callback
    polled,        \* run_once: the events the poll returned, not yet dispatched
    dispatched,    \* run_once: its local counter
    fired,         \* history: the callbacks the current or last pass invoked
    eret,          \* the last call completed: [op, fd, ret]
    quiet,         \* history: descriptors unregistered and not registered
                   \* since
    muted,         \* history: the descriptors that were quiet when the pass
                   \* in progress (or the last pass) started, and still are
    armed,         \* history: descriptors registered for WRITE while writable
                   \* on a running loop, and left so since, no pass started
    expect,        \* history: the armed descriptors of the run_once(0) that
                   \* started last, less those a callback re-registered or
                   \* unregistered during it
    overflow,      \* history: that pass's poll had more ready descriptors
                   \* than its event buffer holds
    nops,          \* history: number of calls and of readiness changes
    budget         \* the number of calls and readiness changes of the run

loopVars == <<backend, entries, entry_count, stopped, ep, ready, rpc, polled,
              dispatched, fired, eret, quiet, muted, armed, expect,
              overflow, nops, budget>>

\* The arena (the g_arena_* globals), the heap its blocks live in and the
\* program that allocates from it.
VARIABLES
    blk,           \* the heap: per block [used, capacity, next]; a freed
                   \* block keeps the contents it had
    heap_live,     \* the blocks malloc'ed and not freed
    nblocks,       \* number of blocks malloc'ed so far
    g_arena_head, g_arena_current, g_arena_enabled,
    g_arena_total_allocated, g_arena_max_size,
    g_arena_save_block, g_arena_save_used, g_arena_save_total,
    env_max,       \* BMB_ARENA_MAX_SIZE, as bmb_arena_init_limit reads it
    undefined,     \* history: a restore has gone on with a freed block
    exited,        \* the process has terminated
    regions,       \* history: the regions returned and not yet invalidated
                   \* by a reset, restore or destroy
    checkpoint,    \* history: what the arena was at the last save
    clean,         \* history: only allocations since the last save
    ares,          \* the last call completed
    narena         \* history: number of calls

arenaVars == <<blk, heap_live, nblocks, g_arena_head, g_arena_current,
               g_arena_enabled, g_arena_total_allocated, g_arena_max_size,
               g_arena_save_block, g_arena_save_used, g_arena_save_total,
               env_max, undefined, exited, regions, checkpoint, clean, ares,
               narena>>

\* Calls made with a null (0) handle.
VARIABLES
    proc,          \* the process: "running", "killed" by a memory fault, or
                   \* "wild" when a load through address 0 came back
    ncall,         \* the last call made with a null handle: [api, op, ret]
    nnull          \* history: number of such calls

nullVars == <<proc, ncall, nnull>>

\* An executor (BmbExecutor), its tasks (BmbTask) and the thread using them.
VARIABLES
    etasks,        \* per task: [result, state, next, mem], mem being "none"
                   \* before task_new, then "live", then "freed"
    queue_head, queue_tail, task_count, completed_count,   \* BmbExecutor
    exec_mem,      \* the executor: "live" or "freed"
    xpc,           \* the caller: "idle", "hung" inside run, or "killed" /
                   \* "wild" after a use of freed memory
    xret,          \* the last call completed: [op, ret, task, arg]
    polls,         \* history: event-loop polls made by run
    nx             \* history: number of calls

execVars == <<etasks, queue_head, queue_tail, task_count, completed_count,
              exec_mem, xpc, xret, polls, nx>>

\* A call of bmb_nb_socket_read on the event loop of the process.
VARIABLES
    nb_pc,         \* the call: "idle" before it, "polling" in its loop over
                   \* run_once, "returned"
    nb_sock,       \* the descriptor of the socket it reads
    completed,     \* BmbNbRecvCtx.completed
    nb_cb,         \* on_recv_ready has been invoked and has yet to run
    nb_turn        \* the parity of the turns of the loop made so far

nbVars == <<nb_pc, nb_sock, completed, nb_cb, nb_turn>>

\* What the functions of one component never touch.
laterVars == <<scopeVars, loopVars, arenaVars, nullVars, execVars, nbVars>>
notChannel == <<barrierVars, lockVars, arcVars, poolVars, laterVars>>
notBarrier == <<chanVars, lockVars, arcVars, poolVars, laterVars>>
notLocks == <<chanVars, barrierVars, arcVars, poolVars, laterVars>>
notArc == <<chanVars, barrierVars, lockVars, poolVars, laterVars>>
notPool == <<chanVars, barrierVars, lockVars, arcVars, laterVars>>
earlierVars == <<chanVars, barrierVars, lockVars, arcVars, poolVars>>
notScope == <<earlierVars, loopVars, arenaVars, nullVars, execVars, nbVars>>
loopOnly == <<earlierVars, scopeVars, arenaVars, nullVars, execVars>>
notLoop == <<loopOnly, nbVars>>
notArena == <<earlierVars, scopeVars, loopVars, nullVars, execVars, nbVars>>
notNull == <<earlierVars, scopeVars, loopVars, arenaVars, execVars, nbVars>>
notExec == <<earlierVars, scopeVars, loopVars, arenaVars, nullVars, nbVars>>

vars == <<earlierVars, laterVars>>

\* What uninitialised memory holds, and what a void function "returns".
Uninit == -9
Void == -1

\* ----------------------------------------------------------------- helpers
\* The values in the ring, oldest first.
Contents == [i \in 1..count |-> buffer[(tail + i - 1) % capacity]]

NextIdx(i) == (i + 1) % capacity

\* while (ch->count == ch->capacity && !ch->closed)
SendMustWait == count = capacity /\ ~closed

\* while (ch->count == 0 && !ch->closed)
RecvMustWait == count = 0 /\ ~closed

\* (mutation: the test off by one)
CanEnqueueOffByOne == count <= capacity /\ ~closed

\* if (ch->count < ch->capacity && !ch->closed)
CanEnqueue == count < capacity /\ ~closed

\* (mutation: a closed channel refuses to hand out what it still holds)
CanDequeueOpenOnly == count > 0 /\ ~closed

\* if (ch->count > 0)
CanDequeue == count > 0

\* pthread_cond_signal / WakeConditionVariable: one of the waiters, if any.
WakeOne(p, W) == IF W = {} THEN {p} ELSE {[p EXCEPT ![w] = "ready"] : w \in W}

SendWaiters(p) == {s \in Senders : p[s] = "wait"}
RecvWaiters(p) == {r \in {Receiver} : p[r] = "wait"}

\* (mutation: the signal is forgotten)
SignalNobody(p) == {p}

SignalNotEmpty(p) == WakeOne(p, RecvWaiters(p))
SignalNotFull(p) == WakeOne(p, SendWaiters(p))

\* (mutation: close signals one waiter instead of broadcasting)
BroadcastOne(p) ==
    IF \E t \in Threads : p[t] = "wait"
    THEN [p EXCEPT ![CHOOSE t \in Threads : p[t] = "wait"] = "ready"]
    ELSE p

\* pthread_cond_broadcast on not_empty and on not_full.
BroadcastAll(p) == [t \in Threads |-> IF p[t] = "wait" THEN "ready" ELSE p[t]]

\* History only: the timed call of t, still before its deadline, has seen a
\* state in which it could proceed.  Evaluated on the state after the step.
Track ==
    avail' = [t \in Threads |->
                IF pc'[t] = "idle" THEN FALSE
                ELSE IF pc'[t] \in {"wait", "ready"} /\ ms'[t] >= 0
                THEN avail[t] \/ (IF t = Receiver THEN count' > 0
                                  ELSE (count' < capacity' /\ ~closed'))
                ELSE avail[t]]

\* The value the next send call passes: the number of the call, so that the
\* histories tell every value from every other (the code only copies values).
Values == {nsend + 1}

NoCall == [op |-> "none", ret |-> Void]

\* Thread t returns r from o.
Return(t, o, r, p) ==
    /\ \E q \in p : pc' = [q EXCEPT ![t] = "idle"]
    /\ op' = [op EXCEPT ![t] = "none"]
    /\ ms' = [ms EXCEPT ![t] = -1]
    /\ last' = [op |-> o, ret |-> r]

\* Thread t, in o with timeout m, blocks in a condition wait.
Block(t, o, m) ==
    /\ pc' = [pc EXCEPT ![t] = "wait"]
    /\ op' = [op EXCEPT ![t] = o]
    /\ ms' = [ms EXCEPT ![t] = m]
    /\ last' = NoCall

\* (mutation: the value is stored at the read position)
EnqueueAtTail(v) ==
    /\ buffer' = [buffer EXCEPT ![tail] = v]
    /\ head' = NextIdx(head)
    /\ count' = count + 1
    /\ enq' = Append(enq, v)

\* ch->buffer[ch->head] = value; ch->head = (ch->head + 1) % ch->capacity;
\* ch->count++;
Enqueue(v) ==
    /\ buffer' = [buffer EXCEPT ![head] = v]
    /\ head' = NextIdx(head)
    /\ count' = count + 1
    /\ enq' = Append(enq, v)

\* ch->tail = (ch->tail + 1) % ch->capacity; ch->count--;
Dequeue ==
    /\ tail' = NextIdx(tail)
    /\ count' = count - 1


\* ------------------------------------------------------------ construction
\* bmb_channel_new(capacity, ...): the buffer is fresh malloc memory.
ChanInit(caps, sends, recvs, calls) ==
    /\ platform \in Platforms
    /\ lim = [sends |-> sends, recvs |-> recvs, calls |-> calls]
    /\ capacity \in 1..caps
    /\ buffer = [i \in 0..(capacity - 1) |-> Uninit]
    /\ head = 0
    /\ tail = 0
    /\ count = 0
    /\ sender_count = 1
    /\ closed = FALSE
    /\ handles = {Owner}
    /\ pc = [t \in Threads |-> "idle"]
    /\ op = [t \in Threads |-> "none"]
    /\ arg = [t \in Senders |-> 0]
    /\ ms = [t \in Threads |-> -1]
    /\ out = Uninit
    /\ last = NoCall
    /\ nsend = 0
    /\ nrecv = 0
    /\ enq = <<>>
    /\ recvd = <<>>
    /\ snap = <<>>
    /\ drain = <<>>
    /\ mixed = FALSE
    /\ avail = [t \in Threads |-> FALSE]

\* ------------------------------------------------------------- sender side
\* The run's budget of calls allows one more send (receive).
MaySend == nsend < lim.sends /\ nsend + nrecv < lim.calls
MayRecv == nrecv < lim.recvs /\ nsend + nrecv < lim.calls

senderKeeps == <<notChannel, platform, lim, capacity, tail, sender_count, closed, handles,
                 out, nrecv, recvd, snap, drain, mixed>>

\* pthread_cond_wait / pthread_cond_timedwait(&ch->not_full, &ch->lock)
SendWait(s, o, v, m) ==
    /\ Block(s, o, m)
    /\ arg' = [arg EXCEPT ![s] = v]
    /\ UNCHANGED <<buffer, head, count, enq>>

\* (mutation: the closed test after the loop is missing)
SendFinishVoidUnchecked(s, v) ==
    /\ Enqueue(v)
    /\ Return(s, "send", Void, SignalNotEmpty(pc))
    /\ arg' = [arg EXCEPT ![s] = 0]

\* bmb_channel_send after its loop: enqueue unless closed, no result.
SendFinishVoid(s, v) ==
    /\ IF ~closed
       THEN /\ Enqueue(v)
            /\ Return(s, "send", Void, SignalNotEmpty(pc))
       ELSE /\ UNCHANGED <<buffer, head, count, enq>>
            /\ Return(s, "send", Void, {pc})
    /\ arg' = [arg EXCEPT ![s] = 0]

\* (mutation: the flagged sends test only for space, not for closed)
SendFinishFlagIgnoresClosed(s, o, v) ==
    /\ IF count < capacity
       THEN /\ Enqueue(v)
            /\ Return(s, o, 1, SignalNotEmpty(pc))
       ELSE /\ UNCHANGED <<buffer, head, count, enq>>
            /\ Return(s, o, 0, {pc})
    /\ arg' = [arg EXCEPT ![s] = 0]

\* bmb_channel_try_send / bmb_channel_send_timeout after the wait: enqueue if
\* there is space and the channel is open, and report success.
SendFinishFlag(s, o, v) ==
    /\ IF CanEnqueue
       THEN /\ Enqueue(v)
            /\ Return(s, o, 1, SignalNotEmpty(pc))
       ELSE /\ UNCHANGED <<buffer, head, count, enq>>
            /\ Return(s, o, 0, {pc})
    /\ arg' = [arg EXCEPT ![s] = 0]

\* bmb_channel_send: the call, up to its first wait or its return.
Send(s, v) ==
    /\ s \in handles /\ pc[s] = "idle" /\ MaySend
    /\ nsend' = nsend + 1
    /\ IF SendMustWait THEN SendWait(s, "send", v, -1) ELSE SendFinishVoid(s, v)
    /\ UNCHANGED senderKeeps
    /\ Track

\* bmb_channel_send: back from pthread_cond_wait, the loop test again.
SendResume(s) ==
    /\ pc[s] = "ready" /\ op[s] = "send"
    /\ IF SendMustWait
       THEN SendWait(s, "send", arg[s], -1)
       ELSE SendFinishVoid(s, arg[s])
    /\ UNCHANGED nsend
    /\ UNCHANGED senderKeeps
    /\ Track

\* bmb_channel_try_send
TrySend(s, v) ==
    /\ s \in handles /\ pc[s] = "idle" /\ MaySend
    /\ nsend' = nsend + 1
    /\ SendFinishFlag(s, "try_send", v)
    /\ UNCHANGED senderKeeps
    /\ Track

\* bmb_channel_send_timeout: the call, up to its first wait or its return.
SendTimeout(s, v, m) ==
    /\ s \in handles /\ pc[s] = "idle" /\ MaySend
    /\ nsend' = nsend + 1
    /\ IF SendMustWait
       THEN SendWait(s, "send_timeout", v, m)
       ELSE SendFinishFlag(s, "send_timeout", v)
    /\ UNCHANGED senderKeeps
    /\ Track

\* Does a timed call leave its wait loop without testing the condition again?
\* POSIX: only on ETIMEDOUT.  Windows: on a timeout, and on any wake-up when
\* the timeout is finite ("if (timeout_ms >= 0) break").
LeavesLoop(t) ==
    \/ pc[t] = "timedout"
    \/ platform = "win32" /\ ms[t] >= 0

\* bmb_channel_send_timeout: back from the (timed) wait.
SendTimeoutResume(s) ==
    /\ pc[s] \in {"ready", "timedout"} /\ op[s] = "send_timeout"
    /\ IF ~LeavesLoop(s) /\ SendMustWait
       THEN SendWait(s, "send_timeout", arg[s], ms[s])
       ELSE SendFinishFlag(s, "send_timeout", arg[s])
    /\ UNCHANGED nsend
    /\ UNCHANGED senderKeeps
    /\ Track

\* Thread s is not inside a channel call (the owner makes no blocking call).
NotInCall(s) == IF s = Owner THEN TRUE ELSE pc[s] = "idle"

\* The thread a new handle goes to: the threads are interchangeable, so the
\* lowest-numbered one that has none (Owner when all have one).
NextThread == CHOOSE n \in Holders \ (handles \ {Owner}) :
                  \A m \in Holders \ (handles \ {Owner}) : n <= m

\* bmb_sender_clone: thread s hands a new BmbSender to thread n.
Clone(s, n) ==
    /\ s \in handles /\ NotInCall(s) /\ n = NextThread
    /\ sender_count' = sender_count + 1
    /\ handles' = handles \cup {n}
    /\ last' = [op |-> "clone", ret |-> n]
    /\ UNCHANGED <<platform, lim, capacity, buffer, head, tail, count, closed,
                   pc, op, arg, ms, out, nsend, nrecv, enq, recvd, snap, drain,
                   mixed, notChannel>>
    /\ Track

\* bmb_channel_close
Close(s) ==
    /\ s \in handles /\ NotInCall(s)
    /\ closed' = TRUE
    /\ pc' = BroadcastAll(pc)
    /\ last' = [op |-> "close", ret |-> Void]
    /\ snap' = IF closed THEN snap ELSE Contents
    /\ UNCHANGED <<platform, lim, capacity, buffer, head, tail, count,
                   sender_count, handles, op, arg, ms, out, nsend, nrecv, enq,
                   recvd, drain, mixed, notChannel>>
    /\ Track

\* ----------------------------------------------------------- receiver side
receiverKeeps == <<notChannel, platform, lim, capacity, buffer, head, sender_count, closed,
                   handles, arg, nsend, enq, snap>>

\* History only: a try_recv that returns after the close is logged, any other
\* receive call that does is noted.
Logged(o, flag, v) ==
    /\ drain' = IF closed /\ o = "try_recv"
                THEN Append(drain, <<flag, v>>) ELSE drain
    /\ mixed' = (mixed \/ (closed /\ o # "try_recv"))

\* pthread_cond_wait / pthread_cond_timedwait(&ch->not_empty, &ch->lock)
RecvWait(o, m) ==
    /\ Block(Receiver, o, m)
    /\ UNCHANGED <<tail, count, out, recvd, drain, mixed>>

\* bmb_channel_recv after its loop: the oldest value, or 0.
RecvFinishValue ==
    /\ IF CanDequeue
       THEN /\ Dequeue
            /\ Return(Receiver, "recv", buffer[tail], SignalNotFull(pc))
            /\ recvd' = Append(recvd, buffer[tail])
       ELSE /\ Return(Receiver, "recv", 0, {pc})
            /\ UNCHANGED <<tail, count, recvd>>
    /\ Logged("recv", 0, 0)
    /\ UNCHANGED out

\* (mutation: a flagged receive that finds nothing still writes *value_out)
RecvFinishFlagClobbers(o) ==
    /\ IF CanDequeue
       THEN /\ Dequeue
            /\ Return(Receiver, o, 1, SignalNotFull(pc))
            /\ out' = buffer[tail]
            /\ recvd' = Append(recvd, buffer[tail])
            /\ Logged(o, 1, buffer[tail])
       ELSE /\ Return(Receiver, o, 0, {pc})
            /\ Logged(o, 0, 0)
            /\ out' = 0
            /\ UNCHANGED <<tail, count, recvd>>

\* bmb_channel_try_recv / bmb_channel_recv_timeout / bmb_channel_recv_opt
\* after the wait: the oldest value into *value_out, and a success flag.
RecvFinishFlag(o) ==
    /\ IF CanDequeue
       THEN /\ Dequeue
            /\ Return(Receiver, o, 1, SignalNotFull(pc))
            /\ out' = buffer[tail]
            /\ recvd' = Append(recvd, buffer[tail])
            /\ Logged(o, 1, buffer[tail])
       ELSE /\ Return(Receiver, o, 0, {pc})
            /\ Logged(o, 0, 0)
            /\ UNCHANGED <<tail, count, out, recvd>>

\* bmb_channel_recv: the call, up to its first wait or its return.
Recv ==
    /\ pc[Receiver] = "idle" /\ MayRecv
    /\ nrecv' = nrecv + 1
    /\ IF RecvMustWait THEN RecvWait("recv", -1) ELSE RecvFinishValue
    /\ UNCHANGED receiverKeeps
    /\ Track

\* bmb_channel_recv: back from pthread_cond_wait, the loop test again.
RecvResume ==
    /\ pc[Receiver] = "ready" /\ op[Receiver] = "recv"
    /\ IF RecvMustWait THEN RecvWait("recv", -1) ELSE RecvFinishValue
    /\ UNCHANGED nrecv
    /\ UNCHANGED receiverKeeps
    /\ Track

\* bmb_channel_recv_opt: the call, up to its first wait or its return.
RecvOpt ==
    /\ pc[Receiver] = "idle" /\ MayRecv
    /\ nrecv' = nrecv + 1
    /\ IF RecvMustWait THEN RecvWait("recv_opt", -1) ELSE RecvFinishFlag("recv_opt")
    /\ UNCHANGED receiverKeeps
    /\ Track

\* bmb_channel_recv_opt: back from pthread_cond_wait.
RecvOptResume ==
    /\ pc[Receiver] = "ready" /\ op[Receiver] = "recv_opt"
    /\ IF RecvMustWait THEN RecvWait("recv_opt", -1) ELSE RecvFinishFlag("recv_opt")
    /\ UNCHANGED nrecv
    /\ UNCHANGED receiverKeeps
    /\ Track

\* bmb_channel_try_recv
TryRecv ==
    /\ pc[Receiver] = "idle" /\ MayRecv
    /\ nrecv' = nrecv + 1
    /\ RecvFinishFlag("try_recv")
    /\ UNCHANGED receiverKeeps
    /\ Track

\* bmb_channel_recv_timeout: the call, up to its first wait or its return.
RecvTimeout(m) ==
    /\ pc[Receiver] = "idle" /\ MayRecv
    /\ nrecv' = nrecv + 1
    /\ IF RecvMustWait
       THEN RecvWait("recv_timeout", m)
       ELSE RecvFinishFlag("recv_timeout")
    /\ UNCHANGED receiverKeeps
    /\ Track

\* bmb_channel_recv_timeout: back from the (timed) wait.
RecvTimeoutResume ==
    /\ pc[Receiver] \in {"ready", "timedout"} /\ op[Receiver] = "recv_timeout"
    /\ IF ~LeavesLoop(Receiver) /\ RecvMustWait
       THEN RecvWait("recv_timeout", ms[Receiver])
       ELSE RecvFinishFlag("recv_timeout")
    /\ UNCHANGED nrecv
    /\ UNCHANGED receiverKeeps
    /\ Track

\* ------------------------------------------------- the condition variables
waitKeeps == <<notChannel, platform, lim, capacity, buffer, head, tail, count, sender_count,
               closed, handles, op, arg, ms, out, nsend, nrecv, enq, recvd,
               snap, drain, mixed>>

\* The deadline of a timed call passes: pthread_cond_timedwait will return
\* ETIMEDOUT, SleepConditionVariableCS will return FALSE.  The deadline is
\* absolute, so it also passes on a thread that was woken and has not yet got
\* the lock back: if that thread finds it must wait, its next timed wait times
\* out at once.
Timeout(t) ==
    /\ pc[t] \in {"wait", "ready"} /\ ms[t] >= 0
    /\ pc' = [pc EXCEPT ![t] = "timedout"]
    /\ last' = NoCall
    /\ UNCHANGED waitKeeps
    /\ Track

\* A spurious wake-up, which both condition-variable APIs allow.
Spurious(t) ==
    /\ pc[t] = "wait"
    /\ pc' = [pc EXCEPT ![t] = "ready"]
    /\ last' = NoCall
    /\ UNCHANGED waitKeeps
    /\ Track

\* The program goes on after the calls counted so far: the counts and the
\* histories of an open channel start afresh, the channel and the threads
\* are as they were.
Forget ==
    /\ ~closed
    /\ nsend = lim.sends \/ nrecv = lim.recvs
    /\ nsend' = 0
    /\ nrecv' = 0
    /\ enq' = <<>>
    /\ recvd' = <<>>
    /\ last' = NoCall
    /\ UNCHANGED <<notChannel, platform, lim, capacity, buffer, head, tail, count,
                   sender_count, closed, handles, pc, op, arg, ms, out, snap, drain,
                   mixed, avail>>

\* ----------------------------------------------------------------- barrier
BThreads == {1, 2, 3}
Generations == 0..MaxRounds

\* bmb_barrier_new(count), count > 0.
BarrierInit(n) ==
    /\ threshold \in 1..n
    /\ b_count = 0
    /\ generation = 0
    /\ bpc = [t \in BThreads |-> "idle"]
    /\ gen = [t \in BThreads |-> 0]
    /\ is_leader = [t \in BThreads |-> 0]
    /\ arrivals = [g \in Generations |-> 0]
    /\ leaders = [g \in Generations |-> 0]
    /\ followers = [g \in Generations |-> 0]

\* (mutation: every caller is told it is the leader)
IsLeaderAlways(c) == 1

\* is_leader = 0; ... if (b->count == b->threshold) { ... is_leader = 1; }
IsLeader(c) == IF c = threshold THEN 1 ELSE 0

\* (mutation: the last arrival leaves the count as it is)
CountNeverReset(c) == c

\* b->count++; if (b->count == b->threshold) { b->count = 0; ... }
CountAfter(c) == IF c = threshold THEN 0 ELSE c

\* (mutation: "if" where the code has "while": any wake-up releases)
WaitsOnce(t) == FALSE

\* while (gen == b->generation)
MustWaitOn(t) == gen[t] = generation

\* pthread_cond_broadcast(&b->cond)
BarrierBroadcast(p) == [t \in BThreads |-> IF p[t] = "wait" THEN "ready" ELSE p[t]]

\* History only: a call of generation g returns r.
Returned(g, r) ==
    /\ leaders' = IF r = 1 THEN [leaders EXCEPT ![g] = @ + 1] ELSE leaders
    /\ followers' = IF r = 1 THEN followers ELSE [followers EXCEPT ![g] = @ + 1]

\* bmb_barrier_wait: the call, up to its wait or (for the last arrival) its
\* return.
BarrierWait(t) ==
    /\ bpc[t] = "idle" /\ generation < MaxRounds
    /\ gen' = [gen EXCEPT ![t] = generation]
    /\ is_leader' = [is_leader EXCEPT ![t] = IsLeader(b_count + 1)]
    /\ arrivals' = [arrivals EXCEPT ![generation] = @ + 1]
    /\ IF b_count + 1 = threshold
       THEN /\ b_count' = CountAfter(b_count + 1)
            /\ generation' = generation + 1
            /\ bpc' = BarrierBroadcast(bpc)
            /\ Returned(generation, IsLeader(b_count + 1))
       ELSE /\ b_count' = CountAfter(b_count + 1)
            /\ bpc' = [bpc EXCEPT ![t] = "wait"]
            /\ UNCHANGED <<generation, leaders, followers>>
    /\ UNCHANGED <<threshold, notBarrier>>

\* bmb_barrier_wait: back from pthread_cond_wait, the loop test again.
BarrierResume(t) ==
    /\ bpc[t] = "ready"
    /\ IF MustWaitOn(t)
       THEN /\ bpc' = [bpc EXCEPT ![t] = "wait"]
            /\ UNCHANGED <<leaders, followers>>
       ELSE /\ bpc' = [bpc EXCEPT ![t] = "idle"]
            /\ Returned(gen[t], is_leader[t])
    /\ UNCHANGED <<threshold, b_count, generation, gen, is_leader, arrivals,
                   notBarrier>>

\* A spurious wake-up of a thread waiting on b->cond.
BarrierSpurious(t) ==
    /\ bpc[t] = "wait"
    /\ bpc' = [bpc EXCEPT ![t] = "ready"]
    /\ UNCHANGED <<threshold, b_count, generation, gen, is_leader, arrivals,
                   leaders, followers, notBarrier>>

BarrierNext ==
    \/ \E t \in BThreads : BarrierWait(t)
    \/ \E t \in BThreads : BarrierResume(t)
    \/ \E t \in BThreads : BarrierSpurious(t)

\* ------------------------------------------------------- mutex and condvar
LThreads == {1, 2, 3}
NoLockCall == [t |-> 0, op |-> "none", ret |-> Void]

\* bmb_mutex_new(0), bmb_condvar_new().
MutexInit ==
    /\ holds = [t \in LThreads |-> 0]
    /\ m_data = 0
    /\ lpc = [t \in LThreads |-> "idle"]
    /\ hval = [t \in LThreads |-> 0]
    /\ llast = NoLockCall
    /\ m_unlocked = 0
    /\ nunlock = 0

\* (mutation: the mutex lets a second thread in)
MutexFreeAlways == TRUE

\* The platform mutex is held by nobody.
MutexFree == \A u \in LThreads : holds[u] = 0

\* pthread_mutex_trylock fails with EBUSY whoever holds the mutex;
\* TryEnterCriticalSection succeeds for the thread that already owns the
\* critical section.
TryEnters(t) ==
    \/ MutexFree
    \/ platform = "win32" /\ holds[t] > 0

\* return 0;  // Lock failed
TryLockFailure(t) == 0

\* Thread t gets the mutex and the call o returns m->data.
Acquire(t, o) ==
    /\ holds' = [holds EXCEPT ![t] = @ + 1]
    /\ lpc' = [lpc EXCEPT ![t] = "idle"]
    /\ hval' = [hval EXCEPT ![t] = m_data]
    /\ llast' = [t |-> t, op |-> o, ret |-> m_data]
    /\ UNCHANGED <<m_data, m_unlocked, nunlock>>

\* bmb_mutex_lock, by a thread that does not hold the mutex: it returns, or
\* blocks inside pthread_mutex_lock.
MutexLock(t) ==
    /\ lpc[t] = "idle" /\ holds[t] = 0
    /\ IF MutexFree
       THEN Acquire(t, "lock")
       ELSE /\ lpc' = [lpc EXCEPT ![t] = "locking"]
            /\ llast' = NoLockCall
            /\ UNCHANGED <<holds, m_data, hval, m_unlocked, nunlock>>
    /\ UNCHANGED <<rwVars, notLocks>>

\* bmb_mutex_lock: the blocked pthread_mutex_lock gets the mutex.
MutexLockResume(t) ==
    /\ lpc[t] = "locking" /\ MutexFree
    /\ Acquire(t, "lock")
    /\ UNCHANGED <<rwVars, notLocks>>

\* bmb_mutex_try_lock
MutexTryLock(t) ==
    /\ lpc[t] = "idle" /\ holds[t] < MaxDepth
    /\ IF TryEnters(t)
       THEN Acquire(t, "try_lock")
       ELSE /\ llast' = [t |-> t, op |-> "try_lock", ret |-> TryLockFailure(t)]
            /\ UNCHANGED <<holds, m_data, lpc, hval, m_unlocked, nunlock>>
    /\ UNCHANGED <<rwVars, notLocks>>

\* bmb_mutex_unlock(new_value), by a thread that holds the mutex; new_value
\* is the value the thread read, incremented.
MutexUnlock(t) ==
    /\ lpc[t] = "idle" /\ holds[t] > 0 /\ nunlock < MaxUnlocks
    /\ m_data' = hval[t] + 1
    /\ hval' = [hval EXCEPT ![t] = @ + 1]
    /\ holds' = [holds EXCEPT ![t] = @ - 1]
    /\ m_unlocked' = hval[t] + 1
    /\ nunlock' = nunlock + 1
    /\ llast' = [t |-> t, op |-> "unlock", ret |-> Void]
    /\ UNCHANGED <<lpc, rwVars, notLocks>>

CvWaiters == {t \in LThreads : lpc[t] = "cvwait"}

\* bmb_condvar_wait, by a thread that has entered the mutex once: the wait
\* releases the mutex and makes the thread a waiter in one step.
CondvarWait(t) ==
    /\ lpc[t] = "idle" /\ holds[t] = 1
    /\ holds' = [holds EXCEPT ![t] = 0]
    /\ lpc' = [lpc EXCEPT ![t] = "cvwait"]
    /\ llast' = NoLockCall
    /\ UNCHANGED <<m_data, hval, m_unlocked, nunlock, rwVars, notLocks>>

\* A spurious wake-up of pthread_cond_wait / SleepConditionVariableCS.
CondvarSpurious(t) ==
    /\ lpc[t] = "cvwait"
    /\ lpc' = [lpc EXCEPT ![t] = "cvready"]
    /\ llast' = NoLockCall
    /\ UNCHANGED <<holds, m_data, hval, m_unlocked, nunlock, rwVars, notLocks>>

\* bmb_condvar_wait: the woken thread gets the mutex back and returns m->data.
CondvarResume(t) ==
    /\ lpc[t] = "cvready" /\ MutexFree
    /\ Acquire(t, "wait")
    /\ UNCHANGED <<rwVars, notLocks>>

\* (mutation: notify_all wakes one waiter only)
WakesOneOnly(W) == IF W = {} THEN {{}} ELSE {{w} : w \in W}

\* pthread_cond_broadcast wakes all the waiters.
WakesAll(W) == {W}

\* pthread_cond_signal wakes at least one of the waiters, if there is any.
WakesSome(W) == IF W = {} THEN {{}} ELSE (SUBSET W) \ {{}}

\* The threads of set w leave the wait.
Notified(t, o, w) ==
    /\ lpc' = [u \in LThreads |-> IF u \in w THEN "cvready" ELSE lpc[u]]
    /\ llast' = [t |-> t, op |-> o, ret |-> Void]
    /\ UNCHANGED <<holds, m_data, hval, m_unlocked, nunlock, rwVars, notLocks>>

\* bmb_condvar_notify_one
CondvarNotifyOne(t) ==
    /\ lpc[t] = "idle"
    /\ \E w \in WakesSome(CvWaiters) : Notified(t, "notify_one", w)

\* bmb_condvar_notify_all
CondvarNotifyAll(t) ==
    /\ lpc[t] = "idle"
    /\ \E w \in WakesAll(CvWaiters) : Notified(t, "notify_all", w)

MutexNext ==
    \/ \E t \in LThreads : MutexLock(t)
    \/ \E t \in LThreads : MutexLockResume(t)
    \/ \E t \in LThreads : MutexTryLock(t)
    \/ \E t \in LThreads : MutexUnlock(t)

CondvarNext ==
    \/ \E t \in LThreads : CondvarWait(t)
    \/ \E t \in LThreads : CondvarSpurious(t)
    \/ \E t \in LThreads : CondvarResume(t)
    \/ \E t \in LThreads : CondvarNotifyOne(t)
    \/ \E t \in LThreads : CondvarNotifyAll(t)

\* ------------------------------------------------------------------ rwlock
\* bmb_rwlock_new(0).
RwInit ==
    /\ rw_readers = [t \in LThreads |-> 0]
    /\ rw_writers = {}
    /\ rw_data = 0
    /\ rval = [t \in LThreads |-> 0]
    /\ rw_written = 0
    /\ nwrite = 0

\* (mutation: a writer is let in among readers)
WriteAdmittedAmongReaders == rw_writers = {}

\* The platform lock can be taken for writing: nobody holds it.
WriteAdmitted == rw_writers = {} /\ \A u \in LThreads : rw_readers[u] = 0

\* The platform lock can be taken for reading: no writer holds it.  (With a
\* writer blocked, the platforms may or may not let a new reader in.)
ReadAdmitted == rw_writers = {}
WriterBlocked == \E u \in LThreads : lpc[u] = "writing"

\* return -1;  (try_read / try_write failed)
TryRwFailure == 0 - 1

\* Thread t has the lock for reading and the call o returns rw->data.
AcquireRead(t, o) ==
    /\ rw_readers' = [rw_readers EXCEPT ![t] = @ + 1]
    /\ lpc' = [lpc EXCEPT ![t] = "idle"]
    /\ rval' = [rval EXCEPT ![t] = rw_data]
    /\ llast' = [t |-> t, op |-> o, ret |-> rw_data]
    /\ UNCHANGED <<rw_writers, rw_data, rw_written, nwrite>>

\* Thread t has the lock for writing and the call o returns rw->data.
AcquireWrite(t, o) ==
    /\ rw_writers' = rw_writers \cup {t}
    /\ lpc' = [lpc EXCEPT ![t] = "idle"]
    /\ rval' = [rval EXCEPT ![t] = rw_data]
    /\ llast' = [t |-> t, op |-> o, ret |-> rw_data]
    /\ UNCHANGED <<rw_readers, rw_data, rw_written, nwrite>>

\* The call of thread t blocks inside the platform lock.
RwBlock(t, p) ==
    /\ lpc' = [lpc EXCEPT ![t] = p]
    /\ llast' = NoLockCall
    /\ UNCHANGED rwVars

\* Thread t holds the lock in neither mode.
RwOutside(t) == rw_readers[t] = 0 /\ t \notin rw_writers

\* bmb_rwlock_read, by a thread that holds the lock in neither mode.
RwRead(t) ==
    /\ lpc[t] = "idle" /\ RwOutside(t)
    /\ \/ ReadAdmitted /\ AcquireRead(t, "read")
       \/ (~ReadAdmitted \/ WriterBlocked) /\ RwBlock(t, "reading")
    /\ UNCHANGED <<mutexVars, notLocks>>

\* bmb_rwlock_read: the blocked call gets the lock.
RwReadResume(t) ==
    /\ lpc[t] = "reading" /\ ReadAdmitted
    /\ AcquireRead(t, "read")
    /\ UNCHANGED <<mutexVars, notLocks>>

\* bmb_rwlock_write, by a thread that holds the lock in neither mode.
RwWrite(t) ==
    /\ lpc[t] = "idle" /\ RwOutside(t)
    /\ IF WriteAdmitted THEN AcquireWrite(t, "write") ELSE RwBlock(t, "writing")
    /\ UNCHANGED <<mutexVars, notLocks>>

\* bmb_rwlock_write: the blocked call gets the lock.
RwWriteResume(t) ==
    /\ lpc[t] = "writing" /\ WriteAdmitted
    /\ AcquireWrite(t, "write")
    /\ UNCHANGED <<mutexVars, notLocks>>

\* A try call that did not get the lock.
RwTryFails(t, o) ==
    /\ llast' = [t |-> t, op |-> o, ret |-> TryRwFailure]
    /\ UNCHANGED <<lpc, rwVars>>

\* bmb_rwlock_try_read
RwTryRead(t) ==
    /\ lpc[t] = "idle" /\ rw_readers[t] < MaxDepth
    /\ \/ ReadAdmitted /\ AcquireRead(t, "try_read")
       \/ (~ReadAdmitted \/ WriterBlocked) /\ RwTryFails(t, "try_read")
    /\ UNCHANGED <<mutexVars, notLocks>>

\* bmb_rwlock_try_write
RwTryWrite(t) ==
    /\ lpc[t] = "idle"
    /\ IF WriteAdmitted
       THEN AcquireWrite(t, "try_write")
       ELSE RwTryFails(t, "try_write")
    /\ UNCHANGED <<mutexVars, notLocks>>

\* bmb_rwlock_read_unlock, by a thread that holds a read lock.
RwReadUnlock(t) ==
    /\ lpc[t] = "idle" /\ rw_readers[t] > 0
    /\ rw_readers' = [rw_readers EXCEPT ![t] = @ - 1]
    /\ llast' = [t |-> t, op |-> "read_unlock", ret |-> Void]
    /\ UNCHANGED <<rw_writers, rw_data, rval, rw_written, nwrite, lpc,
                   mutexVars, notLocks>>

\* bmb_rwlock_write_unlock(new_value), by the writer; new_value is the value
\* the writer read, incremented.
RwWriteUnlock(t) ==
    /\ lpc[t] = "idle" /\ t \in rw_writers /\ nwrite < MaxUnlocks
    /\ rw_data' = rval[t] + 1
    /\ rw_written' = rval[t] + 1
    /\ nwrite' = nwrite + 1
    /\ rw_writers' = rw_writers \ {t}
    /\ llast' = [t |-> t, op |-> "write_unlock", ret |-> Void]
    /\ UNCHANGED <<rw_readers, rval, lpc, mutexVars, notLocks>>

RwNext ==
    \/ \E t \in LThreads : RwRead(t)
    \/ \E t \in LThreads : RwReadResume(t)
    \/ \E t \in LThreads : RwWrite(t)
    \/ \E t \in LThreads : RwWriteResume(t)
    \/ \E t \in LThreads : RwTryRead(t)
    \/ \E t \in LThreads : RwTryWrite(t)
    \/ \E t \in LThreads : RwReadUnlock(t)
    \/ \E t \in LThreads : RwWriteUnlock(t)

\* --------------------------------------------------------------------- arc
AThreads == {1, 2, 3}
ArcValue == 7      \* the value the Arc wraps
ArcHandle == 1     \* the handle bmb_arc_new returned

\* bmb_arc_new(ArcValue), called by thread 1.
ArcInit ==
    /\ refcount = 1
    /\ a_data = ArcValue
    /\ owned = [t \in AThreads |-> IF t = 1 THEN 1 ELSE 0]
    /\ freed = 0
    /\ stale = FALSE
    /\ alast = NoCall
    /\ nclone = 0
    /\ ndrop = 0

\* (mutation: an increment that is lost)
FetchAndAddLost(c) == c

\* __sync_fetch_and_add(&inner->refcount, 1)
FetchAndAdd(c) == c + 1

\* (mutation: the drop that leaves one reference frees)
ReachedZeroEarly(c) == c <= 1

\* if (__sync_sub_and_fetch(&inner->refcount, 1) == 0)
ReachedZero(c) == c = 0

\* The call touches *inner: after free(inner) that is a use after free.
Touch == stale' = (stale \/ freed > 0)

\* bmb_arc_clone, by a thread that owns a handle; the new handle goes to u.
ArcClone(t, u) ==
    /\ owned[t] > 0 /\ nclone < MaxClones
    /\ refcount' = FetchAndAdd(refcount)
    /\ owned' = [owned EXCEPT ![u] = @ + 1]
    /\ nclone' = nclone + 1
    /\ alast' = [op |-> "clone", ret |-> ArcHandle]
    /\ Touch
    /\ UNCHANGED <<a_data, freed, ndrop, notArc>>

\* bmb_arc_get
ArcGet(t) ==
    /\ owned[t] > 0
    /\ alast' = [op |-> "get", ret |-> a_data]
    /\ Touch
    /\ UNCHANGED <<refcount, a_data, owned, freed, nclone, ndrop, notArc>>

\* bmb_arc_strong_count
ArcStrongCount(t) ==
    /\ owned[t] > 0
    /\ alast' = [op |-> "strong_count", ret |-> refcount]
    /\ Touch
    /\ UNCHANGED <<refcount, a_data, owned, freed, nclone, ndrop, notArc>>

\* bmb_arc_drop, by a thread that owns a handle.
ArcDrop(t) ==
    /\ owned[t] > 0
    /\ refcount' = refcount - 1
    /\ owned' = [owned EXCEPT ![t] = @ - 1]
    /\ freed' = IF ReachedZero(refcount - 1) THEN freed + 1 ELSE freed
    /\ ndrop' = ndrop + 1
    /\ alast' = [op |-> "drop", ret |-> Void]
    /\ Touch
    /\ UNCHANGED <<a_data, nclone, notArc>>

ArcNext ==
    \/ \E t, u \in AThreads : ArcClone(t, u)
    \/ \E t \in AThreads : ArcGet(t)
    \/ \E t \in AThreads : ArcStrongCount(t)
    \/ \E t \in AThreads : ArcDrop(t)

\* ------------------------------------------------------------- thread pool
Workers == 1..MaxWorkers

\* The worker threads bmb_thread_pool_new started.
Started == 1..num_workers

\* bmb_thread_pool_new(n), n > 0.
PoolInit(n) ==
    /\ num_workers \in 1..n
    /\ task_queue = <<>>
    /\ shutdown = FALSE
    /\ active_tasks = 0
    /\ wpc = [w \in Workers |-> "top"]
    /\ wtask = [w \in Workers |-> 0]
    /\ ppc = "open"
    /\ counter = 0
    /\ ran = {}
    /\ nexec = 0
    /\ early = 0
    /\ at_join = <<>>
    /\ live_at_join = FALSE
    /\ discarded = <<>>

\* (mutation: a worker leaves at the shutdown, whatever is queued)
ExitsOnShutdown == shutdown

\* if (pool->shutdown && pool->task_head == NULL)
ShouldExit == shutdown /\ task_queue = <<>>

\* while (pool->task_head == NULL && !pool->shutdown)
WorkerMustWait == task_queue = <<>> /\ ~shutdown

\* (mutation: the shutdown wakes one worker only)
PoolWakeOne(p) ==
    IF \E w \in Started : p[w] = "wait"
    THEN [p EXCEPT ![CHOOSE w \in Started : p[w] = "wait"] = "ready"]
    ELSE p

\* pthread_cond_broadcast(&pool->not_empty)
PoolWakeAll(p) == [w \in Workers |-> IF p[w] = "wait" THEN "ready" ELSE p[w]]

\* pthread_cond_signal(&pool->not_empty): the outcomes, one waiter woken if
\* there is any.
PoolSignal(p) ==
    IF \E w \in Started : p[w] = "wait"
    THEN {[p EXCEPT ![w] = "ready"] : w \in {x \in Started : p[x] = "wait"}}
    ELSE {p}

\* (mutation: join does not wait for the workers)
JoinNeverWaits == TRUE

\* pthread_join of every worker has returned.
AllExited == \A w \in Started : wpc[w] = "exited"

\* (mutation: execute links the task in front of the queue)
PoolEnqueueAtHead(q, task) == <<task>> \o q

\* execute: pool->task_tail->next = task; pool->task_tail = task (or both
\* head and tail when the queue is empty).
PoolEnqueue(q, task) == Append(q, task)

\* (mutation: the worker leaves the task it took at the head of the queue)
PoolNotDequeued(q) == q

\* worker: pool->task_head = task->next.
PoolDequeue(q) == Tail(q)

\* The worker loop, under the lock: wait, exit, or dequeue the head task.
WorkerTake(w) ==
    /\ w \in Started /\ wpc[w] \in {"top", "ready"}
    /\ IF WorkerMustWait
       THEN /\ wpc' = [wpc EXCEPT ![w] = "wait"]
            /\ UNCHANGED <<task_queue, active_tasks, wtask>>
       ELSE IF ShouldExit
       THEN /\ wpc' = [wpc EXCEPT ![w] = "exited"]
            /\ UNCHANGED <<task_queue, active_tasks, wtask>>
       ELSE /\ wpc' = [wpc EXCEPT ![w] = "run"]
            /\ wtask' = [wtask EXCEPT ![w] = Head(task_queue)]
            /\ task_queue' = PoolDequeue(task_queue)
            /\ active_tasks' = active_tasks + 1
    /\ UNCHANGED <<num_workers, shutdown, ppc, counter, ran, nexec, early,
                   at_join, live_at_join, discarded, notPool>>

\* task->func(): the task runs to its end, incrementing the counter.
WorkerRun(w) ==
    /\ w \in Started /\ wpc[w] = "run"
    /\ counter' = counter + 1
    /\ ran' = ran \cup {wtask[w]}
    /\ wpc' = [wpc EXCEPT ![w] = "done"]
    /\ UNCHANGED <<num_workers, task_queue, shutdown, active_tasks, wtask, ppc,
                   nexec, early, at_join, live_at_join, discarded, notPool>>

\* pool->active_tasks--, under the lock, and back to the top of the loop.
WorkerDone(w) ==
    /\ w \in Started /\ wpc[w] = "done"
    /\ active_tasks' = active_tasks - 1
    /\ wpc' = [wpc EXCEPT ![w] = "top"]
    /\ UNCHANGED <<num_workers, task_queue, shutdown, wtask, ppc, counter, ran,
                   nexec, early, at_join, live_at_join, discarded, notPool>>

\* A spurious wake-up of a worker waiting on not_empty.
WorkerSpurious(w) ==
    /\ w \in Started /\ wpc[w] = "wait"
    /\ wpc' = [wpc EXCEPT ![w] = "ready"]
    /\ UNCHANGED <<num_workers, task_queue, shutdown, active_tasks, wtask, ppc,
                   counter, ran, nexec, early, at_join, live_at_join, discarded, notPool>>

\* bmb_thread_pool_execute
PoolExecute ==
    /\ ppc = "open" /\ nexec < MaxTasks
    /\ nexec' = nexec + 1
    /\ task_queue' = PoolEnqueue(task_queue, nexec + 1)
    /\ wpc' \in PoolSignal(wpc)
    /\ early' = IF shutdown THEN early ELSE early + 1
    /\ UNCHANGED <<num_workers, shutdown, active_tasks, wtask, ppc, counter,
                   ran, at_join, live_at_join, discarded, notPool>>

\* bmb_thread_pool_shutdown
PoolShutdown ==
    /\ ppc = "open"
    /\ shutdown' = TRUE
    /\ wpc' = PoolWakeAll(wpc)
    /\ UNCHANGED <<num_workers, task_queue, active_tasks, wtask, ppc, counter,
                   ran, nexec, early, at_join, live_at_join, discarded, notPool>>

\* bmb_thread_pool_join, up to the wait for the workers.
PoolJoin ==
    /\ ppc = "open"
    /\ shutdown' = TRUE
    /\ wpc' = PoolWakeAll(wpc)
    /\ ppc' = "joining"
    /\ at_join' = task_queue
    /\ live_at_join' = \E w \in Started : wpc[w] # "exited"
    /\ UNCHANGED <<num_workers, task_queue, active_tasks, wtask, counter, ran,
                   nexec, early, discarded, notPool>>

\* bmb_thread_pool_join: the workers have been joined; the tasks left in the
\* queue are freed, then the pool.
PoolJoinReturn ==
    /\ ppc = "joining" /\ AllExited
    /\ ppc' = "joined"
    /\ discarded' = task_queue
    /\ task_queue' = <<>>
    /\ UNCHANGED <<num_workers, shutdown, active_tasks, wpc, wtask, counter,
                   ran, nexec, early, at_join, live_at_join, notPool>>

PoolNext ==
    \/ \E w \in Workers : WorkerTake(w)
    \/ \E w \in Workers : WorkerRun(w)
    \/ \E w \in Workers : WorkerDone(w)
    \/ \E w \in Workers : WorkerSpurious(w)
    \/ PoolExecute
    \/ PoolShutdown
    \/ PoolJoin
    \/ PoolJoinReturn

\* -------------------------------------------------------------- scoped threads
MaxSpawns == 3
SThreads == 1..MaxSpawns

ScopeInit ==
    /\ scope_threads = <<>>
    /\ scope_freed = FALSE
    /\ child = [t \in SThreads |-> "none"]
    /\ spc = "open"
    /\ snode = 0
    /\ joining = <<>>
    /\ joined = {}
    /\ registered = {}
    /\ nspawn = 0

\* pthread_join and WaitForSingleObject return at once.
JoinNeverBlocks(t) == TRUE

\* pthread_join(thread) / WaitForSingleObject(thread, INFINITE) return once
\* the thread has terminated.
JoinReturns(t) == child[t] \in {"done", "killed"}

\* bmb_scope_spawn up to the creation of the thread.  A failed malloc or a
\* failed pthread_create / CreateThread returns with nothing changed; a
\* created thread runs from here on, before its node is in the list.
ScopeSpawn(ok) ==
    /\ spc = "open"
    /\ nspawn < MaxSpawns
    /\ nspawn' = nspawn + 1
    /\ IF ok
         THEN /\ child' = [child EXCEPT ![nspawn + 1] = "running"]
              /\ snode' = nspawn + 1
              /\ spc' = "spawning"
         ELSE UNCHANGED <<child, snode, spc>>
    /\ UNCHANGED <<scope_threads, scope_freed, joining, joined, registered,
                   notScope>>

\* The rest of bmb_scope_spawn: the node goes to the head of the list under
\* the lock.  The Windows build allocates the node after it created the
\* thread, and terminates the thread if that allocation fails.
ScopeSpawnLink(ok) ==
    /\ spc = "spawning"
    /\ ok \/ platform = "win32"
    /\ IF ok
         THEN /\ scope_threads' = <<snode>> \o scope_threads
              /\ registered' = registered \cup {snode}
              /\ UNCHANGED child
         ELSE /\ child' = [child EXCEPT ![snode] = "killed"]
              /\ UNCHANGED <<scope_threads, registered>>
    /\ spc' = "open"
    /\ snode' = 0
    /\ UNCHANGED <<scope_freed, joining, joined, nspawn, notScope>>

\* bmb_scope_thread_func: the task runs to its end and the thread terminates.
ScopeThreadFunc(t) ==
    /\ child[t] = "running"
    /\ child' = [child EXCEPT ![t] = "done"]
    /\ UNCHANGED <<scope_threads, scope_freed, spc, snode, joining, joined,
                   registered, nspawn, notScope>>

\* bmb_scope_wait, its critical section: the list is taken and emptied.
ScopeWait ==
    /\ spc = "open"
    /\ joining' = scope_threads
    /\ scope_threads' = <<>>
    /\ spc' = "joining"
    /\ UNCHANGED <<scope_freed, child, snode, joined, registered, nspawn,
                   notScope>>

\* One turn of wait's loop: join the thread of the first node, free the node.
ScopeJoin ==
    /\ spc = "joining"
    /\ joining # <<>>
    /\ JoinReturns(Head(joining))
    /\ joined' = joined \cup {Head(joining)}
    /\ joining' = Tail(joining)
    /\ UNCHANGED <<scope_threads, scope_freed, child, spc, snode, registered,
                   nspawn, notScope>>

\* The end of bmb_scope_wait: the lock is destroyed and the scope freed.
ScopeWaitReturn ==
    /\ spc = "joining"
    /\ joining = <<>>
    /\ spc' = "returned"
    /\ scope_freed' = TRUE
    /\ UNCHANGED <<scope_threads, child, snode, joining, joined, registered,
                   nspawn, notScope>>

ScopeNext ==
    \/ \E ok \in BOOLEAN : ScopeSpawn(ok)
    \/ \E ok \in BOOLEAN : ScopeSpawnLink(ok)
    \/ \E t \in SThreads : ScopeThreadFunc(t)
    \/ ScopeWait
    \/ ScopeJoin
    \/ ScopeWaitReturn


\* ------------------------------------------------------------------ event loop
\* The table has 1024 slots and the epoll backend reads at most 64 events a
\* pass in the source; the model keeps both small so that a full table and a
\* full event buffer are reached.
BMB_MAX_FDS == 2
MaxEvents == 1
MaxLoopOps == 3
MaxPassOps == 4

BMB_EVENT_READ == 1
BMB_EVENT_WRITE == 2
BMB_EVENT_ERROR == 4
BMB_EL_OK == 0
BMB_EL_ERROR == 0 - 1

\* The WSAPoll backend is the poll backend with WSAPoll for poll.
Backends == {"epoll", "poll"}
\* Descriptors: two sockets, and one regular file, which epoll refuses
\* (EPERM) and which is always ready.
Sockets == {1, 2}
RegularFile == 3
Fds == Sockets \cup {RegularFile}
Slots == 0..(BMB_MAX_FDS - 1)
Interests == {BMB_EVENT_READ, BMB_EVENT_WRITE}
\* What register is called with: a null callback, or one of two callbacks,
\* each with its own user_data.
Handlers == {[callback |-> 0, user_data |-> 1],
             [callback |-> 1, user_data |-> 1],
             [callback |-> 2, user_data |-> 2]}
\* What a descriptor can be ready for: nothing, writing, or reading with an
\* error pending.
ReadyMasks == {0, BMB_EVENT_WRITE, BMB_EVENT_READ + BMB_EVENT_ERROR}
NoWatch == 0 - 1
NoEntry == [fd |-> 0, events |-> 0, callback |-> 0, user_data |-> 0, active |-> 0]

\* m & b, for b one bit.
HasBit(m, b) == (m \div b) % 2 = 1

LoopInit ==
    /\ backend \in Backends
    /\ entries = [i \in Slots |-> NoEntry]
    /\ entry_count = 0
    /\ stopped = 0
    /\ ep = [d \in Fds |-> NoWatch]
    /\ ready \in [Fds -> ReadyMasks]
    /\ ready[RegularFile] = BMB_EVENT_WRITE
    /\ rpc = "idle"
    /\ polled = <<>>
    /\ dispatched = 0
    /\ fired = <<>>
    /\ eret = [op |-> "create", fd |-> 0, ret |-> 0]
    /\ quiet = {}
    /\ muted = {}
    /\ armed = {}
    /\ expect = {}
    /\ overflow = FALSE
    /\ nops = 0

\* The first active entry, whatever its descriptor.
FindFirstActive(es, n, fd) ==
    IF \E i \in Slots : i < n /\ es[i].active = 1
      THEN CHOOSE i \in Slots : /\ i < n /\ es[i].active = 1
                                 /\ \A j \in Slots : (j < n /\ es[j].active = 1) => i <= j
      ELSE 0 - 1

\* find_entry: the first active entry of the descriptor below entry_count,
\* or -1.
Matches(es, n, fd) == {i \in Slots : i < n /\ es[i].active = 1 /\ es[i].fd = fd}
find_entry(es, n, fd) ==
    IF Matches(es, n, fd) = {} THEN 0 - 1
    ELSE CHOOSE i \in Matches(es, n, fd) : \A j \in Matches(es, n, fd) : i <= j

\* The slot register takes for a new descriptor: the first inactive one below
\* entry_count, else entry_count itself.
FreeBelow(es, n) == {i \in Slots : i < n /\ es[i].active = 0}
FreeSlot(es, n) ==
    IF FreeBelow(es, n) = {} THEN n
    ELSE CHOOSE i \in FreeBelow(es, n) : \A j \in FreeBelow(es, n) : i <= j

\* A poll that never reports a descriptor writable.
ReventsNoWrite(events, rdy) ==
    (IF HasBit(events, BMB_EVENT_READ) /\ HasBit(rdy, BMB_EVENT_READ)
        THEN BMB_EVENT_READ ELSE 0)
    + (IF HasBit(rdy, BMB_EVENT_ERROR) THEN BMB_EVENT_ERROR ELSE 0)

\* The events a poll reports for a descriptor watched with the mask `events`:
\* the requested ones it is ready for, and errors whether requested or not.
Revents(events, rdy) ==
    (IF HasBit(events, BMB_EVENT_READ) /\ HasBit(rdy, BMB_EVENT_READ)
        THEN BMB_EVENT_READ ELSE 0)
    + (IF HasBit(events, BMB_EVENT_WRITE) /\ HasBit(rdy, BMB_EVENT_WRITE)
        THEN BMB_EVENT_WRITE ELSE 0)
    + (IF HasBit(rdy, BMB_EVENT_ERROR) THEN BMB_EVENT_ERROR ELSE 0)

\* epoll_ctl(ADD) fails for a regular file (EPERM) and for a member (EEXIST);
\* epoll_ctl(MOD) fails for a descriptor that is no member (ENOENT).
EpollCtlOk(is_update, fd) ==
    IF is_update THEN ep[fd] # NoWatch
    ELSE fd # RegularFile /\ ep[fd] = NoWatch

\* The calls of the program come from the thread that runs the loop, between
\* passes or from inside a callback.
LoopCallable == rpc \in {"idle", "callback"} /\ nops < budget

\* The capacity test register makes before it looks the descriptor up.
TableFull == entry_count >= BMB_MAX_FDS

\* ev.events of register: the READ and WRITE bits of the interest mask.
EpollMask(events) ==
    (IF HasBit(events, BMB_EVENT_READ) THEN BMB_EVENT_READ ELSE 0)
    + (IF HasBit(events, BMB_EVENT_WRITE) THEN BMB_EVENT_WRITE ELSE 0)

\* The descriptors of the poll result that the pass has still to dispatch.
Pending == {polled[i].fd : i \in 1..Len(polled)}

\* bmb_event_loop_register.  The poll backends update an entry in place or
\* fill a free slot; the epoll backend writes the slot and then tells the
\* kernel, returning the error of epoll_ctl with the slot written.
RegisterCall(fd, events, callback, user_data) ==
    /\ LoopCallable
    /\ nops' = nops + 1
    /\ LET found == find_entry(entries, entry_count, fd)
           is_update == found >= 0
           idx == IF is_update THEN found ELSE FreeSlot(entries, entry_count)
           ctl_ok == backend # "epoll" \/ EpollCtlOk(is_update, fd)
           refused == callback = 0 \/ TableFull
           result == IF refused \/ ~ctl_ok THEN BMB_EL_ERROR ELSE BMB_EL_OK
           arms == /\ result = BMB_EL_OK
                   /\ HasBit(events, BMB_EVENT_WRITE)
                   /\ HasBit(ready[fd], BMB_EVENT_WRITE)
                   /\ stopped = 0
       IN  /\ eret' = [op |-> "register", fd |-> fd, ret |-> result]
           /\ IF refused
                THEN UNCHANGED <<entries, entry_count, ep, quiet, muted, armed,
                                 expect>>
                ELSE /\ entries' = [entries EXCEPT ![idx] =
                            [fd |-> fd, events |-> events, callback |-> callback,
                             user_data |-> user_data, active |-> 1]]
                     /\ entry_count' =
                            IF idx = entry_count THEN entry_count + 1
                            ELSE entry_count
                     /\ ep' = IF backend = "epoll" /\ ctl_ok
                                THEN [ep EXCEPT ![fd] = EpollMask(events)]
                                ELSE ep
                     /\ quiet' = quiet \ {fd}
                     /\ muted' = muted \ {fd}
                     /\ armed' = IF arms THEN armed \cup {fd} ELSE armed \ {fd}
                     /\ expect' = expect \ {fd}
    /\ UNCHANGED <<budget, backend, stopped, ready, rpc, polled, dispatched, fired,
                   overflow>>

Register(fd, events, callback, user_data) ==
    RegisterCall(fd, events, callback, user_data) /\ UNCHANGED notLoop

\* The table unregister leaves: the entry of the descriptor made inactive.
Deactivated(es, n, fd) ==
    IF find_entry(es, n, fd) < 0 THEN es
    ELSE [es EXCEPT ![find_entry(es, n, fd)].active = 0]

\* The body of bmb_event_loop_unregister.
Unregistered(fd) ==
    /\ LET idx == find_entry(entries, entry_count, fd)
       IN  IF idx < 0
             THEN /\ eret' = [op |-> "unregister", fd |-> fd, ret |-> BMB_EL_ERROR]
                  /\ UNCHANGED <<entries, ep, quiet, armed, expect>>
             ELSE /\ eret' = [op |-> "unregister", fd |-> fd, ret |-> BMB_EL_OK]
                  /\ entries' = Deactivated(entries, entry_count, fd)
                  /\ ep' = IF backend = "epoll" THEN [ep EXCEPT ![fd] = NoWatch]
                           ELSE ep
                  /\ quiet' = quiet \cup {fd}
                  /\ armed' = armed \ {fd}
                  /\ expect' = expect \ {fd}
    /\ UNCHANGED <<budget, backend, entry_count, stopped, ready, rpc, polled, dispatched,
                   fired, muted, overflow>>

\* bmb_event_loop_unregister.
Unregister(fd) ==
    /\ LoopCallable
    /\ nops' = nops + 1
    /\ Unregistered(fd)
    /\ UNCHANGED notLoop

\* The poll array built from every entry below entry_count, active or not.
RECURSIVE PollScanAll(_)
PollScanAll(i) ==
    IF i >= entry_count THEN <<>>
    ELSE (IF Revents(entries[i].events, ready[entries[i].fd]) # 0
            THEN <<[idx |-> i, fd |-> entries[i].fd,
                    revents |-> Revents(entries[i].events, ready[entries[i].fd])]>>
            ELSE <<>>)
         \o PollScanAll(i + 1)

\* The poll backends: the poll array is built from the active entries in
\* index order, and the entries with events are dispatched in that order.
RECURSIVE PollScan(_)
PollScan(i) ==
    IF i >= entry_count THEN <<>>
    ELSE (IF entries[i].active = 1
             /\ Revents(entries[i].events, ready[entries[i].fd]) # 0
            THEN <<[idx |-> i, fd |-> entries[i].fd,
                    revents |-> Revents(entries[i].events, ready[entries[i].fd])]>>
            ELSE <<>>)
         \o PollScan(i + 1)

\* The epoll backend: the members of the interest list that have events.
EpollReady == {d \in Fds : ep[d] # NoWatch /\ Revents(ep[d], ready[d]) # 0}

RECURSIVE EpollEvents(_)
EpollEvents(S) ==
    IF S = {} THEN <<>>
    ELSE LET d == CHOOSE x \in S : \A y \in S : x <= y
         IN  <<[idx |-> 0 - 1, fd |-> d, revents |-> Revents(ep[d], ready[d])]>>
             \o EpollEvents(S \ {d})

\* epoll_wait fills at most the event buffer, with ready members of the
\* kernel's choice.
EpollBatch(S) ==
    /\ S \subseteq EpollReady
    /\ Cardinality(S) = IF Cardinality(EpollReady) < MaxEvents
                          THEN Cardinality(EpollReady) ELSE MaxEvents

PollResults ==
    IF backend = "epoll"
      THEN {EpollEvents(S) : S \in {T \in SUBSET EpollReady : EpollBatch(T)}}
      ELSE {PollScan(0)}

\* The timeouts run_once is called with: block, or poll.
RunTimeouts == {-1, 0}

\* run_once does not look at the stop flag.
RunNeverRefused == FALSE

\* run_once returns 0 at once on a stopped loop.
RunRefused == stopped = 1

\* bmb_event_loop_run_once up to the return of the poll.  With a negative
\* timeout the poll returns only when it has an event; the poll backends do
\* not poll at all when no entry is active.
RunOncePass(timeout_ms) ==
    /\ rpc = "idle"
    /\ dispatched' = 0
    /\ fired' = <<>>
    /\ armed' = {}
    /\ muted' = quiet
    /\ IF RunRefused
         THEN /\ eret' = [op |-> "run_once", fd |-> 0, ret |-> 0]
              /\ expect' = {}
              /\ overflow' = FALSE
              /\ UNCHANGED <<rpc, polled>>
         ELSE /\ \E res \in PollResults :
                    /\ timeout_ms >= 0 \/ res # <<>>
                          \/ (backend # "epoll" /\ FreeBelow(entries, entry_count)
                                                    = {i \in Slots : i < entry_count})
                    /\ polled' = res
              /\ rpc' = "dispatch"
              /\ expect' = IF timeout_ms = 0 THEN armed ELSE {}
              /\ overflow' = (backend = "epoll"
                              /\ Cardinality(EpollReady) > MaxEvents)
              /\ UNCHANGED eret
    /\ UNCHANGED <<budget, backend, entries, entry_count, stopped, ep, ready, quiet>>

RunOnce(timeout_ms) ==
    /\ nops < budget
    /\ nops' = nops + 1
    /\ RunOncePass(timeout_ms)
    /\ UNCHANGED notLoop

\* The entry a polled event is dispatched to: the poll backends use the index
\* noted when the poll array was built, the epoll backend looks the
\* descriptor up again.
DispatchIndex(ev) ==
    IF backend = "epoll" THEN find_entry(entries, entry_count, ev.fd) ELSE ev.idx

\* One turn of the dispatch loop of run_once.
DispatchTurn ==
    /\ rpc \in {"dispatch", "callback"}
    /\ polled # <<>>
    /\ polled' = Tail(polled)
    /\ LET ev == Head(polled)
           idx == DispatchIndex(ev)
       IN  IF idx < 0
             THEN /\ rpc' = "dispatch"
                  /\ UNCHANGED <<fired, dispatched>>
             ELSE /\ rpc' = "callback"
                  /\ fired' = Append(fired,
                        [callback |-> entries[idx].callback,
                         user_data |-> entries[idx].user_data,
                         fd |-> entries[idx].fd,
                         events |-> ev.revents])
                  /\ dispatched' = dispatched + 1
    /\ UNCHANGED <<budget, backend, entries, entry_count, stopped, ep, ready, eret, quiet,
                   muted, armed, expect, overflow, nops>>

Dispatch == DispatchTurn /\ UNCHANGED notLoop

\* The return of run_once: the number of callbacks dispatched.
RunOnceReturn ==
    /\ rpc \in {"dispatch", "callback"}
    /\ polled = <<>>
    /\ rpc' = "idle"
    /\ eret' = [op |-> "run_once", fd |-> 0, ret |-> dispatched]
    /\ UNCHANGED <<budget, backend, entries, entry_count, stopped, ep, ready, polled,
                   dispatched, fired, quiet, muted, armed, expect, overflow,
                   nops, notLoop>>

\* bmb_event_loop_stop, from any thread.
LoopStop ==
    /\ nops < budget
    /\ nops' = nops + 1
    /\ stopped' = 1
    /\ armed' = {}
    /\ UNCHANGED <<budget, backend, entries, entry_count, ep, ready, rpc, polled,
                   dispatched, fired, eret, quiet, muted, expect, overflow,
                   notLoop>>

\* bmb_event_loop_is_stopped.
LoopIsStopped ==
    /\ LoopCallable
    /\ nops' = nops + 1
    /\ eret' = [op |-> "is_stopped", fd |-> 0, ret |-> stopped]
    /\ UNCHANGED <<budget, backend, entries, entry_count, stopped, ep, ready, rpc, polled,
                   dispatched, fired, quiet, muted, armed, expect, overflow,
                   notLoop>>

\* The kernel: a descriptor becomes ready for other events.
FdReady(fd, m) ==
    /\ nops < budget
    /\ nops' = nops + 1
    /\ ready[fd] # m
    /\ ready' = [ready EXCEPT ![fd] = m]
    /\ armed' = IF HasBit(m, BMB_EVENT_WRITE) THEN armed ELSE armed \ {fd}
    /\ UNCHANGED <<budget, backend, entries, entry_count, stopped, ep, rpc, polled,
                   dispatched, fired, eret, quiet, muted, expect, overflow,
                   notLoop>>

LoopNext ==
    \/ \E fd \in Fds, e \in Interests, h \in Handlers :
          Register(fd, e, h.callback, h.user_data)
    \/ \E fd \in Fds : Unregister(fd)
    \/ \E tm \in RunTimeouts : RunOnce(tm)
    \/ Dispatch
    \/ RunOnceReturn
    \/ LoopStop
    \/ LoopIsStopped
    \/ \E fd \in Sockets, m \in ReadyMasks : FdReady(fd, m)

\* ---------------------------------------------------------------------
\* bmb_nb_socket_read: a blocking read built on the event loop.
\* ---------------------------------------------------------------------

MaxNbOps == 3

\* on_recv_ready and the context it is registered with.
OnRecvReady == 3
RecvCtx == 3

NbInit ==
    /\ nb_pc = "idle"
    /\ nb_sock = 0
    /\ completed = 0
    /\ nb_cb = FALSE
    /\ nb_turn = 0

\* The socket can be read, or has an error pending.
Readable(fd) ==
    HasBit(ready[fd], BMB_EVENT_READ) \/ HasBit(ready[fd], BMB_EVENT_ERROR)

\* bmb_nb_socket_read up to its loop: the context is cleared and the socket
\* registered for reading; what register returns is not looked at.
NbRead(sock) ==
    /\ nb_pc = "idle"
    /\ rpc = "idle"
    /\ RegisterCall(sock, BMB_EVENT_READ, OnRecvReady, RecvCtx)
    /\ nb_pc' = "polling"
    /\ nb_sock' = sock
    /\ completed' = 0
    /\ UNCHANGED <<nb_cb, nb_turn, loopOnly>>

\* One turn of while (!ctx->completed): run_once with a timeout of 100 ms,
\* up to the return of the poll.
NbPoll ==
    /\ nb_pc = "polling"
    /\ completed = 0
    /\ RunOncePass(100)
    /\ nb_turn' = 1 - nb_turn
    /\ UNCHANGED <<nops, nb_pc, nb_sock, completed, nb_cb, loopOnly>>

\* The dispatch loop of that run_once: a turn of it invokes the callback of
\* the entry, which may be on_recv_ready.
NbDispatch ==
    /\ nb_pc = "polling"
    /\ ~nb_cb
    /\ DispatchTurn
    /\ nb_cb' = (rpc' = "callback" /\ Len(fired') > Len(fired)
                   /\ fired'[Len(fired')].callback = OnRecvReady)
    /\ UNCHANGED <<nb_pc, nb_sock, completed, nb_turn, loopOnly>>

\* on_recv_ready: nothing once completed; on READ or ERROR it receives, sets
\* completed and unregisters the descriptor it was called with.
NbOnRecvReady ==
    /\ nb_cb
    /\ nb_cb' = FALSE
    /\ LET call == fired[Len(fired)]
       IN  IF completed = 0
              /\ (HasBit(call.events, BMB_EVENT_READ)
                    \/ HasBit(call.events, BMB_EVENT_ERROR))
             THEN /\ completed' = 1
                  /\ Unregistered(call.fd)
                  /\ UNCHANGED nops
             ELSE UNCHANGED <<completed, loopVars>>
    /\ UNCHANGED <<nb_pc, nb_sock, nb_turn, loopOnly>>

\* That run_once returns.
NbRunOnceReturn ==
    /\ nb_pc = "polling"
    /\ ~nb_cb
    /\ RunOnceReturn

\* The loop is left and the call returns.
NbReturn ==
    /\ nb_pc = "polling"
    /\ rpc = "idle"
    /\ completed = 1
    /\ nb_pc' = "returned"
    /\ UNCHANGED <<nb_sock, completed, nb_cb, nb_turn, loopVars, loopOnly>>

\* What the program did with the loop before the call.
NbBefore ==
    /\ nb_pc = "idle"
    /\ \/ \E fd \in Fds, e \in Interests, h \in Handlers :
              Register(fd, e, h.callback, h.user_data)
       \/ LoopStop

NbCall == \E sock \in Sockets : NbRead(sock)

NbNext ==
    \/ NbBefore
    \/ NbCall
    \/ NbPoll
    \/ NbDispatch
    \/ NbOnRecvReady
    \/ NbRunOnceReturn
    \/ NbReturn

\* ----------------------------------------------------------------------- arena
\* A block is 8 MiB in the source; the model keeps it at 16 bytes, and the
\* configured maximum at a few blocks, so that blocks fill up and the limit
\* is met.
BMB_ARENA_BLOCK_SIZE == 16
MaxArenaOps == 7

BlockIds == 1..(MaxArenaOps + 1)
Sizes == {0, 1, 16, 24}
ArenaMaxSizes == {24, 40}
NoBlock == [used |-> 0, capacity |-> 0, next |-> 0]
NoCheckpoint == [current |-> 0, used |-> 0, total |-> 0, live |-> {}]

ArenaInit ==
    /\ blk = [b \in BlockIds |-> NoBlock]
    /\ heap_live = {}
    /\ nblocks = 0
    /\ g_arena_head = 0
    /\ g_arena_current = 0
    /\ g_arena_enabled = 0
    /\ g_arena_total_allocated = 0
    /\ g_arena_max_size = 0
    /\ g_arena_save_block = 0
    /\ g_arena_save_used = 0
    /\ g_arena_save_total = 0
    /\ env_max \in ArenaMaxSizes
    /\ undefined = FALSE
    /\ exited = FALSE
    /\ regions = {}
    /\ checkpoint = NoCheckpoint
    /\ clean = FALSE
    /\ ares = [op |-> "start", block |-> 0, offset |-> 0, size |-> 0]
    /\ narena = 0

\* A request left at the size asked for.
NotAligned(size) == size

\* (size + 7) & ~7
AlignUp(size) == ((size + 7) \div 8) * 8

\* The capacity bmb_arena_new_block gives a block.
BlockCapacity(min_size) ==
    IF min_size > BMB_ARENA_BLOCK_SIZE THEN min_size + 64
    ELSE BMB_ARENA_BLOCK_SIZE

\* The blocks reached from b by the next links, b included (none from NULL).
RECURSIVE Chain(_)
Chain(b) == IF b = 0 THEN {} ELSE {b} \cup Chain(blk[b].next)

\* The fast path of bmb_arena_alloc: the current block has room.
Fits(size) ==
    /\ g_arena_current # 0
    /\ blk[g_arena_current].used + size <= blk[g_arena_current].capacity

\* The limit test of the slow path, made against the limit as
\* bmb_arena_init_limit leaves it.
LimitExceeded(size, limit) == g_arena_total_allocated + size > limit

ArenaCall == ~exited /\ narena < MaxArenaOps

\* bmb_arena_mode: the first enable creates the first block.
ArenaMode(enable) ==
    /\ ArenaCall
    /\ narena' = narena + 1
    /\ g_arena_enabled' = enable
    /\ clean' = FALSE
    /\ ares' = [op |-> "mode", block |-> 0, offset |-> 0, size |-> 0]
    /\ IF enable # 0 /\ g_arena_head = 0
         THEN LET b == nblocks + 1
              IN  /\ nblocks' = b
                  /\ heap_live' = heap_live \cup {b}
                  /\ blk' = [blk EXCEPT ![b] =
                        [used |-> 0,
                         capacity |-> BlockCapacity(BMB_ARENA_BLOCK_SIZE),
                         next |-> 0]]
                  /\ g_arena_total_allocated' =
                        g_arena_total_allocated
                        + BlockCapacity(BMB_ARENA_BLOCK_SIZE)
                  /\ g_arena_head' = b
                  /\ g_arena_current' = b
         ELSE UNCHANGED <<nblocks, heap_live, blk, g_arena_total_allocated,
                          g_arena_head, g_arena_current>>
    /\ UNCHANGED <<g_arena_max_size, g_arena_save_block, g_arena_save_used,
                   g_arena_save_total, env_max, undefined, exited, regions, checkpoint,
                   notArena>>

\* bmb_arena_alloc, called while the arena is enabled.
ArenaAlloc(request) ==
    /\ ArenaCall
    /\ g_arena_enabled # 0
    /\ narena' = narena + 1
    /\ LET size == AlignUp(request)
           limit == IF g_arena_max_size = 0 THEN env_max ELSE g_arena_max_size
           b == nblocks + 1
       IN  IF Fits(size)
             THEN /\ blk' = [blk EXCEPT ![g_arena_current].used = @ + size]
                  /\ regions' = regions \cup
                        {[block |-> g_arena_current,
                          offset |-> blk[g_arena_current].used, size |-> size]}
                  /\ ares' = [op |-> "alloc", block |-> g_arena_current,
                              offset |-> blk[g_arena_current].used,
                              size |-> size]
                  /\ UNCHANGED <<heap_live, nblocks, g_arena_head,
                                 g_arena_current, g_arena_total_allocated,
                                 g_arena_max_size, exited>>
             ELSE /\ g_arena_max_size' = limit
                  /\ IF LimitExceeded(size, limit)
                       THEN /\ exited' = TRUE
                            /\ ares' = [op |-> "fatal", block |-> 0,
                                        offset |-> 0, size |-> size]
                            /\ UNCHANGED <<blk, heap_live, nblocks, g_arena_head,
                                           g_arena_current,
                                           g_arena_total_allocated, regions>>
                       ELSE /\ nblocks' = b
                            /\ heap_live' = heap_live \cup {b}
                            /\ blk' = [c \in BlockIds |->
                                  IF c = b
                                    THEN [used |-> size,
                                          capacity |-> BlockCapacity(size),
                                          next |-> 0]
                                  ELSE IF c = g_arena_current
                                    THEN [blk[c] EXCEPT !.next = b]
                                  ELSE blk[c]]
                            /\ g_arena_total_allocated' =
                                  g_arena_total_allocated + BlockCapacity(size)
                            /\ g_arena_head' =
                                  IF g_arena_current = 0 THEN b ELSE g_arena_head
                            /\ g_arena_current' = b
                            /\ regions' = regions \cup
                                  {[block |-> b, offset |-> 0, size |-> size]}
                            /\ ares' = [op |-> "alloc", block |-> b,
                                        offset |-> 0, size |-> size]
                            /\ UNCHANGED exited
    /\ UNCHANGED <<g_arena_enabled, g_arena_save_block, g_arena_save_used,
                   g_arena_save_total, env_max, undefined, checkpoint, clean, notArena>>

\* The capacities of a set of blocks, summed.
RECURSIVE Capacities(_)
Capacities(B) ==
    IF B = {} THEN 0
    ELSE LET b == CHOOSE x \in B : TRUE
         IN  blk[b].capacity + Capacities(B \ {b})

\* bmb_arena_reset: every block after the first is freed, the first rewound.
ArenaReset ==
    /\ ArenaCall
    /\ narena' = narena + 1
    /\ clean' = FALSE
    /\ ares' = [op |-> "reset", block |-> 0, offset |-> 0, size |-> 0]
    /\ IF g_arena_head = 0
         THEN UNCHANGED <<blk, heap_live, g_arena_current,
                          g_arena_total_allocated, regions>>
         ELSE LET rest == Chain(blk[g_arena_head].next)
              IN  /\ heap_live' = heap_live \ rest
                  /\ g_arena_total_allocated' =
                        g_arena_total_allocated - Capacities(rest)
                  /\ blk' = [blk EXCEPT ![g_arena_head].used = 0,
                                        ![g_arena_head].next = 0]
                  /\ g_arena_current' = g_arena_head
                  /\ regions' = {}
    /\ UNCHANGED <<nblocks, g_arena_head, g_arena_enabled, g_arena_max_size,
                   g_arena_save_block, g_arena_save_used, g_arena_save_total,
                   env_max, undefined, exited, checkpoint, notArena>>

\* bmb_arena_save.
ArenaSave ==
    /\ ArenaCall
    /\ narena' = narena + 1
    /\ g_arena_save_block' = g_arena_current
    /\ g_arena_save_used' =
          IF g_arena_current # 0 THEN blk[g_arena_current].used ELSE 0
    /\ g_arena_save_total' = g_arena_total_allocated
    /\ checkpoint' = [current |-> g_arena_current,
                      used |-> IF g_arena_current # 0
                                 THEN blk[g_arena_current].used ELSE 0,
                      total |-> g_arena_total_allocated,
                      live |-> heap_live]
    /\ clean' = TRUE
    /\ ares' = [op |-> "save", block |-> 0, offset |-> 0, size |-> 0]
    /\ UNCHANGED <<blk, heap_live, nblocks, g_arena_head, g_arena_current,
                   g_arena_enabled, g_arena_total_allocated, g_arena_max_size,
                   env_max, undefined, exited, regions, notArena>>

\* The regions a rewind of block b to the offset `used` leaves valid.
Surviving(b, used, gone) ==
    {r \in regions : /\ r.block \notin gone
                     /\ r.block = b => r.offset + r.size <= used}

\* A restore that leaves the used offset of the saved block where it is.
NotRewound == blk[g_arena_save_block].used

\* The used offset restore gives the saved block.
RewoundOffset == g_arena_save_used

\* bmb_arena_restore.  When the saved block has been freed since the save
\* (by reset or destroy) the call reads and writes freed memory: the process
\* may crash there, or go on with what the freed block still holds.
ArenaRestore(crash) ==
    /\ ArenaCall
    /\ narena' = narena + 1
    /\ crash => (g_arena_save_block # 0 /\ g_arena_save_block \notin heap_live)
    /\ IF g_arena_save_block = 0
         THEN /\ ares' = [op |-> "restore", block |-> 0, offset |-> 0, size |-> 0]
              /\ UNCHANGED <<blk, heap_live, g_arena_current,
                             g_arena_total_allocated, regions, exited>>
         ELSE IF crash
         THEN /\ exited' = TRUE
              /\ ares' = [op |-> "crash", block |-> 0, offset |-> 0, size |-> 0]
              /\ UNCHANGED <<blk, heap_live, g_arena_current,
                             g_arena_total_allocated, regions>>
         ELSE LET rest == Chain(blk[g_arena_save_block].next)
              IN  /\ heap_live' = heap_live \ rest
                  /\ blk' = [blk EXCEPT
                        ![g_arena_save_block].next = 0,
                        ![g_arena_save_block].used = RewoundOffset]
                  /\ g_arena_current' = g_arena_save_block
                  /\ g_arena_total_allocated' = g_arena_save_total
                  /\ regions' = Surviving(g_arena_save_block,
                                          g_arena_save_used, rest)
                  /\ ares' = [op |-> "restore", block |-> g_arena_save_block,
                              offset |-> g_arena_save_used, size |-> 0]
                  /\ UNCHANGED exited
    /\ undefined' = (undefined \/ (g_arena_save_block # 0
                                     /\ g_arena_save_block \notin heap_live))
    /\ UNCHANGED <<nblocks, g_arena_head, g_arena_enabled, g_arena_max_size,
                   g_arena_save_block, g_arena_save_used, g_arena_save_total,
                   env_max, checkpoint, clean, notArena>>

\* bmb_arena_usage.
ArenaUsage ==
    /\ ArenaCall
    /\ narena' = narena + 1
    /\ ares' = [op |-> "usage", block |-> 0, offset |-> 0,
                size |-> g_arena_total_allocated]
    /\ UNCHANGED <<blk, heap_live, nblocks, g_arena_head, g_arena_current,
                   g_arena_enabled, g_arena_total_allocated, g_arena_max_size,
                   g_arena_save_block, g_arena_save_used, g_arena_save_total,
                   env_max, undefined, exited, regions, checkpoint, clean, notArena>>

\* bmb_arena_destroy: every block is freed; the checkpoint is left as it is.
ArenaDestroy ==
    /\ ArenaCall
    /\ narena' = narena + 1
    /\ heap_live' = heap_live \ Chain(g_arena_head)
    /\ g_arena_head' = 0
    /\ g_arena_current' = 0
    /\ g_arena_total_allocated' = 0
    /\ g_arena_enabled' = 0
    /\ regions' = {}
    /\ clean' = FALSE
    /\ ares' = [op |-> "destroy", block |-> 0, offset |-> 0, size |-> 0]
    /\ UNCHANGED <<blk, nblocks, g_arena_max_size, g_arena_save_block,
                   g_arena_save_used, g_arena_save_total, env_max, undefined, exited,
                   checkpoint, notArena>>

ArenaNext ==
    \/ \E e \in {0, 1} : ArenaMode(e)
    \/ \E n \in Sizes : ArenaAlloc(n)
    \/ ArenaReset
    \/ ArenaSave
    \/ \E crash \in BOOLEAN : ArenaRestore(crash)
    \/ ArenaUsage
    \/ ArenaDestroy

\* ------------------------------------------------------------ null handles
\* Calls with a null handle that one run makes.
MaxNullCalls == 3

NullInit ==
    /\ proc = "running"
    /\ ncall = [api |-> "none", op |-> "none", ret |-> Void]
    /\ nnull = 0

\* What a load through a null pointer can do: address 0 is not mapped and
\* the process is killed, or the load comes back and the function goes on
\* with the pointer it read.
NullDerefOutcomes == {"killed", "wild"}

\* The guard at the head of a function, if (handle == 0) return ret: the
\* function returns and has touched nothing.
NullReturn(api, fn, ret) ==
    /\ proc = "running"
    /\ nnull < MaxNullCalls
    /\ ncall' = [api |-> api, op |-> fn, ret |-> ret]
    /\ nnull' = nnull + 1
    /\ UNCHANGED <<proc, notNull>>

\* A function that reads a field through its handle before any test.
NullDeref(api, fn, outcome) ==
    /\ proc = "running"
    /\ nnull < MaxNullCalls
    /\ proc' = outcome
    /\ ncall' = [api |-> api, op |-> fn, ret |-> Void]
    /\ nnull' = nnull + 1
    /\ UNCHANGED notNull

\* bmb_mutex_lock, _unlock, _try_lock, _free with handle == 0.
MutexNullOps == {"lock", "unlock", "try_lock", "free"}
MutexNull(fn) ==
    NullReturn("mutex", fn, IF fn \in {"lock", "try_lock"} THEN 0 ELSE Void)

\* bmb_arc_clone, _get, _drop, _strong_count with handle == 0.
ArcNullOps == {"clone", "get", "drop", "strong_count"}
ArcNull(fn) ==
    NullReturn("arc", fn, IF fn = "drop" THEN Void ELSE 0)

\* The rwlock functions with handle == 0; the try functions return -1.
RwNullOps == {"read", "read_unlock", "write", "write_unlock", "try_read",
              "try_write", "free"}
RwNull(fn) ==
    NullReturn("rwlock", fn,
               CASE fn \in {"read", "write"} -> 0
                 [] fn \in {"try_read", "try_write"} -> 0 - 1
                 [] OTHER -> Void)

\* bmb_barrier_wait, bmb_barrier_free with handle == 0.
BarrierNullOps == {"wait", "free"}
BarrierNull(fn) ==
    NullReturn("barrier", fn, IF fn = "wait" THEN 0 ELSE Void)

\* The condvar functions; wait returns 0 when either handle is 0.
CondvarNullOps == {"wait(0, m)", "wait(cv, 0)", "wait(0, 0)", "notify_one",
                   "notify_all", "free"}
CondvarNull(fn) ==
    NullReturn("condvar", fn,
               IF fn \in {"notify_one", "notify_all", "free"} THEN Void ELSE 0)

\* The channel functions cast the handle and read handle->channel at once.
ChannelNullOps == {"send", "recv", "try_send", "try_recv", "recv_timeout",
                   "send_timeout", "sender_clone", "close", "is_closed",
                   "recv_opt"}
ChannelNull(fn, outcome) == NullDeref("channel", fn, outcome)

\* The executor and task functions; block_on hands its argument back and a
\* null task counts as completed.
ExecutorNullOps == {"spawn(0, task)", "spawn(exec, 0)", "run",
                    "completed_count", "free", "task_get_result",
                    "task_is_completed", "task_free"}
ExecutorNull(fn) ==
    NullReturn("executor", fn,
               CASE fn \in {"completed_count", "task_get_result"} -> 0
                 [] fn = "task_is_completed" -> 1
                 [] OTHER -> Void)
ExecutorBlockOnNull(future_value) ==
    NullReturn("executor", "block_on", future_value)

\* bmb_thread_pool_execute, _join, _shutdown with a null handle.
PoolNullOps == {"execute(0, task)", "execute(pool, 0)", "join", "shutdown"}
PoolNull(fn) == NullReturn("thread_pool", fn, Void)

\* bmb_scope_spawn, bmb_scope_wait with a null handle.
ScopeNullOps == {"spawn(0, task)", "spawn(scope, 0)", "wait"}
ScopeNull(fn) == NullReturn("scope", fn, Void)

\* The event loop functions with loop == NULL; is_stopped answers 1.
LoopNullOps == {"register", "unregister", "run_once", "stop", "is_stopped",
                "destroy"}
LoopNull(fn) ==
    NullReturn("event_loop", fn,
               CASE fn \in {"register", "unregister"} -> BMB_EL_ERROR
                 [] fn = "run_once" -> 0
                 [] fn = "is_stopped" -> 1
                 [] OTHER -> Void)

NullNext ==
    \/ \E fn \in MutexNullOps : MutexNull(fn)
    \/ \E fn \in ArcNullOps : ArcNull(fn)
    \/ \E fn \in RwNullOps : RwNull(fn)
    \/ \E fn \in BarrierNullOps : BarrierNull(fn)
    \/ \E fn \in CondvarNullOps : CondvarNull(fn)
    \/ \E fn \in ChannelNullOps, outcome \in NullDerefOutcomes :
          ChannelNull(fn, outcome)
    \/ \E fn \in ExecutorNullOps : ExecutorNull(fn)
    \/ \E v \in Values : ExecutorBlockOnNull(v)
    \/ \E fn \in PoolNullOps : PoolNull(fn)
    \/ \E fn \in ScopeNullOps : ScopeNull(fn)
    \/ \E fn \in LoopNullOps : LoopNull(fn)


\* ------------------------------------------------------------------ executor
TASK_PENDING == 0
TASK_RUNNING == 1
TASK_COMPLETED == 2

\* Tasks one run creates, and calls it makes.
MaxExecTasks == 3
MaxExecOps == 5
TaskIds == 1..MaxExecTasks
FutureValues == {0, 7}

NoTask == [result |-> 0, state |-> TASK_PENDING, next |-> 0, mem |-> "none"]

\* bmb_executor_new
ExecInit ==
    /\ etasks = [t \in TaskIds |-> NoTask]
    /\ queue_head = 0
    /\ queue_tail = 0
    /\ task_count = 0
    /\ completed_count = 0
    /\ exec_mem = "live"
    /\ xpc = "idle"
    /\ xret = [op |-> "none", ret |-> Void, task |-> 0, arg |-> 0]
    /\ polls = 0
    /\ nx = 0

\* What a read or write of freed memory can do.
FreedUseOutcomes == {"killed", "wild"}

\* The tasks a traversal from task b visits, following next; seen holds those
\* already visited.
RECURSIVE Walk(_, _, _)
Walk(T, b, seen) ==
    IF b = 0 \/ b \in seen THEN seen ELSE Walk(T, T[b].next, seen \cup {b})

\* The traversal from b comes back to a task it has visited.
RECURSIVE Cyclic(_, _, _)
Cyclic(T, b, seen) ==
    IF b = 0 THEN FALSE
    ELSE IF b \in seen THEN TRUE
    ELSE Cyclic(T, T[b].next, seen \cup {b})

\* The tasks in the queue of the executor.
InQueue == Walk(etasks, queue_head, {})

ExecCall == xpc = "idle" /\ exec_mem = "live" /\ nx < MaxExecOps

\* The next task malloc returns.
FreshTask == CHOOSE t \in TaskIds : etasks[t].mem = "none" /\
                 \A u \in TaskIds : etasks[u].mem = "none" => t <= u

\* bmb_task_new: task->state = TASK_COMPLETED.
NewTaskState == TASK_COMPLETED

\* bmb_task_new(future_value)
TaskCreated(T, t, future_value) ==
    [T EXCEPT ![t] = [result |-> future_value, state |-> NewTaskState,
                      next |-> 0, mem |-> "live"]]

\* The body of bmb_executor_spawn on a live task: the fields of the task,
\* of the qt and of the executor after it.  The next pointer of the task is
\* cleared first and the old qt is linked to it second, whether or not the
\* task is already in the queue.
SpawnedTasks(T, qt, t) ==
    LET cleared == [T EXCEPT ![t].next = 0]
    IN  IF qt # 0 THEN [cleared EXCEPT ![qt].next = t] ELSE cleared

SpawnedHead(qh, qt, t) == IF qt # 0 THEN qh ELSE t

\* The pass of bmb_executor_run over the queue: every pending task becomes
\* completed.
RunCompletes(T, visited) ==
    [t \in TaskIds |->
        IF t \in visited /\ T[t].state = TASK_PENDING
        THEN [T[t] EXCEPT !.state = TASK_COMPLETED]
        ELSE T[t]]

PendingIn(T, visited) == {t \in visited : T[t].state = TASK_PENDING}

\* bmb_task_new
TaskNew(future_value) ==
    /\ ExecCall
    /\ \E t \in TaskIds : etasks[t].mem = "none"
    /\ etasks' = TaskCreated(etasks, FreshTask, future_value)
    /\ xret' = [op |-> "task_new", ret |-> FreshTask, task |-> FreshTask,
                arg |-> future_value]
    /\ nx' = nx + 1
    /\ UNCHANGED <<queue_head, queue_tail, task_count, completed_count,
                   exec_mem, xpc, polls, notExec>>

\* bmb_executor_spawn(exec, task), task a handle task_new returned.  Writing
\* to a freed task, or to a freed qt, is a use of freed memory.
ExecutorSpawn(t, outcome) ==
    /\ ExecCall
    /\ etasks[t].mem # "none"
    /\ nx' = nx + 1
    /\ xret' = [op |-> "spawn", ret |-> Void, task |-> t,
                arg |-> 0]
    /\ IF etasks[t].mem = "freed" \/
          (queue_tail # 0 /\ etasks[queue_tail].mem = "freed")
       THEN /\ xpc' = outcome
            /\ UNCHANGED <<etasks, queue_head, queue_tail, task_count,
                           completed_count>>
       ELSE /\ etasks' = SpawnedTasks(etasks, queue_tail, t)
            /\ queue_head' = SpawnedHead(queue_head, queue_tail, t)
            /\ queue_tail' = t
            /\ task_count' = task_count + 1
            /\ completed_count' =
                 IF etasks[t].state = TASK_COMPLETED
                 THEN completed_count + 1 ELSE completed_count
            /\ xpc' = xpc
    /\ UNCHANGED <<exec_mem, polls, notExec>>

\* bmb_executor_run: one poll of the event loop with timeout 0, then one
\* traversal of the queue under the lock, then break.  The traversal ends at
\* a null next pointer; on a queue that loops back it does not end.
ExecutorRun(outcome) ==
    /\ ExecCall
    /\ nx' = nx + 1
    /\ polls' = polls + 1
    /\ xret' = [op |-> "run", ret |-> Void, task |-> 0,
                arg |-> 0]
    /\ IF \E t \in InQueue : etasks[t].mem = "freed"
       THEN xpc' = outcome /\ UNCHANGED <<etasks, completed_count>>
       ELSE /\ etasks' = RunCompletes(etasks, InQueue)
            /\ completed_count' =
                 completed_count + Cardinality(PendingIn(etasks, InQueue))
            /\ xpc' = IF Cyclic(etasks, queue_head, {}) THEN "hung" ELSE xpc
    /\ UNCHANGED <<queue_head, queue_tail, task_count, exec_mem, notExec>>

\* bmb_executor_block_on(exec, future_value): task_new, spawn, run, then the
\* result is read from the task; the task stays where spawn put it.
ExecutorBlockOn(future_value, outcome) ==
    /\ ExecCall
    /\ \E t \in TaskIds : etasks[t].mem = "none"
    /\ nx' = nx + 1
    /\ polls' = polls + 1
    /\ LET t == FreshTask
           created == TaskCreated(etasks, t, future_value)
           linked == SpawnedTasks(created, queue_tail, t)
           qh == SpawnedHead(queue_head, queue_tail, t)
           visited == Walk(linked, qh, {})
       IN  IF (queue_tail # 0 /\ etasks[queue_tail].mem = "freed") \/
              (\E u \in visited : linked[u].mem = "freed")
           THEN /\ xpc' = outcome
                /\ xret' = [op |-> "block_on", ret |-> Void, task |-> t,
                            arg |-> future_value]
                /\ etasks' = created
                /\ UNCHANGED <<queue_head, queue_tail, task_count,
                               completed_count>>
           ELSE /\ etasks' = RunCompletes(linked, visited)
                /\ queue_head' = qh
                /\ queue_tail' = t
                /\ task_count' = task_count + 1
                /\ completed_count' =
                     completed_count
                       + (IF created[t].state = TASK_COMPLETED THEN 1 ELSE 0)
                       + Cardinality(PendingIn(linked, visited))
                /\ IF Cyclic(linked, qh, {})
                   THEN /\ xpc' = "hung"
                        /\ xret' = [op |-> "block_on", ret |-> Void,
                                    task |-> t,
                                    arg |-> future_value]
                   ELSE /\ xpc' = xpc
                        /\ xret' = [op |-> "block_on",
                                    ret |-> linked[t].result, task |-> t,
                                    arg |-> future_value]
    /\ UNCHANGED <<exec_mem, notExec>>

\* bmb_block_on(future_value): an executor of its own, block_on on it, and
\* bmb_executor_free, which frees the executor and the task in its queue.
BlockOn(future_value) ==
    /\ ExecCall
    /\ \E t \in TaskIds : etasks[t].mem = "none"
    /\ nx' = nx + 1
    /\ polls' = polls + 1
    /\ LET t == FreshTask
           created == TaskCreated(etasks, t, future_value)
       IN  /\ etasks' = [created EXCEPT ![t].mem = "freed"]
           /\ xret' = [op |-> "bmb_block_on", ret |-> created[t].result,
                       task |-> t,
                       arg |-> future_value]
    /\ UNCHANGED <<queue_head, queue_tail, task_count, completed_count,
                   exec_mem, xpc, notExec>>

\* bmb_task_get_result, bmb_task_is_completed, bmb_executor_completed_count
TaskGetResult(t, outcome) ==
    /\ ExecCall
    /\ etasks[t].mem # "none"
    /\ nx' = nx + 1
    /\ IF etasks[t].mem = "freed"
       THEN /\ xpc' = outcome
            /\ xret' = [op |-> "task_get_result", ret |-> Void, task |-> t,
                        arg |-> 0]
       ELSE /\ xpc' = xpc
            /\ xret' = [op |-> "task_get_result", ret |-> etasks[t].result,
                        task |-> t,
                        arg |-> 0]
    /\ UNCHANGED <<etasks, queue_head, queue_tail, task_count,
                   completed_count, exec_mem, polls, notExec>>

ExecutorCompletedCount ==
    /\ ExecCall
    /\ nx' = nx + 1
    /\ xret' = [op |-> "completed_count", ret |-> completed_count, task |-> 0,
                arg |-> 0]
    /\ UNCHANGED <<etasks, queue_head, queue_tail, task_count,
                   completed_count, exec_mem, xpc, polls, notExec>>

\* bmb_task_free(task): the task is freed; the queue is not looked at.
TaskFree(t, outcome) ==
    /\ ExecCall
    /\ etasks[t].mem # "none"
    /\ nx' = nx + 1
    /\ xret' = [op |-> "task_free", ret |-> Void, task |-> t,
                arg |-> 0]
    /\ IF etasks[t].mem = "freed"
       THEN xpc' = outcome /\ UNCHANGED etasks
       ELSE xpc' = xpc /\ etasks' = [etasks EXCEPT ![t].mem = "freed"]
    /\ UNCHANGED <<queue_head, queue_tail, task_count, completed_count,
                   exec_mem, polls, notExec>>

\* bmb_executor_free: every task of the queue is freed, then the executor.
\* On a queue that loops back, or that holds a freed task, freed memory is
\* read and freed again.
ExecutorFree(outcome) ==
    /\ ExecCall
    /\ nx' = nx + 1
    /\ xret' = [op |-> "free", ret |-> Void, task |-> 0,
                arg |-> 0]
    /\ exec_mem' = "freed"
    /\ etasks' = [t \in TaskIds |->
                    IF t \in InQueue THEN [etasks[t] EXCEPT !.mem = "freed"]
                    ELSE etasks[t]]
    /\ xpc' = IF Cyclic(etasks, queue_head, {}) \/
                 (\E t \in InQueue : etasks[t].mem = "freed")
              THEN outcome ELSE xpc
    /\ UNCHANGED <<queue_head, queue_tail, task_count, completed_count,
                   polls, notExec>>

ExecNext ==
    \/ \E v \in FutureValues : TaskNew(v)
    \/ \E t \in TaskIds, o \in FreedUseOutcomes : ExecutorSpawn(t, o)
    \/ \E o \in FreedUseOutcomes : ExecutorRun(o)
    \/ \E v \in FutureValues, o \in FreedUseOutcomes : ExecutorBlockOn(v, o)
    \/ \E v \in FutureValues : BlockOn(v)
    \/ \E t \in TaskIds, o \in FreedUseOutcomes : TaskGetResult(t, o)
    \/ ExecutorCompletedCount
    \/ \E t \in TaskIds, o \in FreedUseOutcomes : TaskFree(t, o)
    \/ \E o \in FreedUseOutcomes : ExecutorFree(o)


\* ------------------------------------------------------------ specification
\* The part of the state a specification is not about, held still: a barrier
\* nobody waits on, a channel nobody uses.
BarrierParked == BarrierInit(1)
LocksParked == MutexInit /\ RwInit
ArcParked == ArcInit
PoolParked == PoolInit(1)
ScopeParked == ScopeInit
LoopParked == LoopInit /\ backend = "poll" /\ ready = [d \in Fds |-> IF d = RegularFile THEN BMB_EVENT_WRITE ELSE 0] /\ budget = MaxLoopOps
ArenaParked == ArenaInit /\ env_max = 40
NullParked == NullInit
ExecParked == ExecInit
NbParked == NbInit
LaterParked == ScopeParked /\ LoopParked /\ ArenaParked /\ NullParked /\ ExecParked /\ NbParked
ChanUnused == ChanInit(1, 0, 0, 0)
ChanParked == ChanInit(1, 0, 0, 0) /\ platform = "posix"

ChanNext ==
    \/ \E s \in Senders, v \in Values : Send(s, v)
    \/ \E s \in Senders, v \in Values : TrySend(s, v)
    \/ \E s \in Senders, v \in Values, m \in TimeoutMs : SendTimeout(s, v, m)
    \/ \E s \in Senders : SendResume(s)
    \/ \E s \in Senders : SendTimeoutResume(s)
    \/ \E s \in Holders, n \in Senders : Clone(s, n)
    \/ \E s \in Holders : Close(s)
    \/ Recv
    \/ RecvResume
    \/ RecvOpt
    \/ RecvOptResume
    \/ TryRecv
    \/ \E m \in TimeoutMs : RecvTimeout(m)
    \/ RecvTimeoutResume
    \/ \E t \in Threads : Timeout(t)
    \/ \E t \in Threads : Spurious(t)

Init == ChanInit(MaxCap, MaxSends, MaxRecvs, MaxSends + MaxRecvs) /\ BarrierParked /\ LocksParked /\ ArcParked /\ PoolParked /\ LaterParked
Next == ChanNext
Spec == Init /\ [][Next]_vars

\* What a thread does when it gets the lock back after a wait.
Resume(t) ==
    \/ t \in Senders /\ SendResume(t)
    \/ t \in Senders /\ SendTimeoutResume(t)
    \/ t = Receiver /\ RecvResume
    \/ t = Receiver /\ RecvOptResume
    \/ t = Receiver /\ RecvTimeoutResume

\* The same machine with the scheduling the threads library gives: a thread
\* that was woken, or whose timed wait ran out, gets the lock and runs, and
\* the deadline of a timed call passes (weak fairness).  Nothing obliges the
\* program to make another call.
FairInit == ChanInit(LiveCap, LiveCalls, LiveCalls, LiveCalls) /\ BarrierParked /\ LocksParked /\ ArcParked /\ PoolParked /\ LaterParked
FairSpec ==
    /\ FairInit
    /\ [][Next]_vars
    /\ \A t \in Threads : WF_vars(Resume(t))
    /\ \A t \in Threads : WF_vars(Timeout(t))

\* The barrier and its callers.  A thread woken by the broadcast gets the lock
\* and runs (weak fairness); nothing obliges a thread to call wait.
BarrierStart ==
    BarrierInit(MaxThreshold) /\ ChanParked /\ LocksParked /\ ArcParked /\ PoolParked /\ LaterParked
BarrierSpec ==
    /\ BarrierStart
    /\ [][BarrierNext]_vars
    /\ \A t \in BThreads : WF_vars(BarrierResume(t))

\* The mutex and the condition variable, on either platform.  Nothing obliges
\* a thread to unlock or to notify.
MutexStart ==
    MutexInit /\ RwInit /\ ChanUnused /\ BarrierParked /\ ArcParked /\ PoolParked /\ LaterParked
MutexSpec == MutexStart /\ [][MutexNext \/ CondvarNext]_vars

\* The reader-writer lock.
RwSpec == MutexStart /\ [][RwNext]_vars

\* The mutex and the reader-writer lock used by the same two threads.
TryThreads == {1, 2}
LockNext ==
    \/ \E t \in TryThreads : MutexLock(t)
    \/ \E t \in TryThreads : MutexLockResume(t)
    \/ \E t \in TryThreads : MutexTryLock(t)
    \/ \E t \in TryThreads : MutexUnlock(t)
    \/ \E t \in TryThreads : RwRead(t)
    \/ \E t \in TryThreads : RwReadResume(t)
    \/ \E t \in TryThreads : RwWrite(t)
    \/ \E t \in TryThreads : RwWriteResume(t)
    \/ \E t \in TryThreads : RwTryRead(t)
    \/ \E t \in TryThreads : RwTryWrite(t)
    \/ \E t \in TryThreads : RwReadUnlock(t)
    \/ \E t \in TryThreads : RwWriteUnlock(t)
LockSpec == MutexStart /\ [][LockNext]_vars

\* The Arc and its owners.
ArcStart == ArcInit /\ ChanParked /\ BarrierParked /\ LocksParked /\ PoolParked /\ LaterParked
ArcSpec == ArcStart /\ [][ArcNext]_vars

\* The thread pool.  A worker that can run runs, and the tasks terminate
\* (weak fairness of the worker's steps); join returns once the workers have
\* exited.  Nothing obliges the owner to call execute, shutdown or join.
PoolStart ==
    PoolInit(MaxWorkers) /\ ChanParked /\ BarrierParked /\ LocksParked /\ ArcParked /\ LaterParked
PoolSpec ==
    /\ PoolStart
    /\ [][PoolNext]_vars
    /\ \A w \in Workers :
          WF_vars(WorkerTake(w) \/ WorkerRun(w) \/ WorkerDone(w))
    /\ WF_vars(PoolJoinReturn)

\* The scope, on either platform.  Nothing obliges the owner to spawn or to
\* wait, and a task need not terminate.
ScopeStart ==
    ScopeInit /\ ChanUnused /\ BarrierParked /\ LocksParked /\ ArcParked /\ PoolParked /\ LoopParked /\ ArenaParked /\ NullParked /\ ExecParked /\ NbParked
ScopeSpec == ScopeStart /\ [][ScopeNext]_vars

\* The event loop on each backend, its caller and the kernel.
EarlierParked ==
    ChanParked /\ BarrierParked /\ LocksParked /\ ArcParked /\ PoolParked
LoopStart == LoopInit /\ budget = MaxLoopOps /\ EarlierParked /\ ScopeParked /\ ArenaParked /\ NullParked /\ ExecParked /\ NbParked
LoopSpec == LoopStart /\ [][LoopNext]_vars

\* The event loop with one more call in the run, every socket having data
\* to read and an error pending from the start.
PassStart ==
    /\ LoopInit
    /\ budget = MaxPassOps
    /\ ready = [d \in Fds |-> IF d = RegularFile THEN BMB_EVENT_WRITE
                                ELSE BMB_EVENT_READ + BMB_EVENT_ERROR]
    /\ EarlierParked /\ ScopeParked /\ ArenaParked /\ NullParked /\ ExecParked /\ NbParked
PassSpec == PassStart /\ [][LoopNext]_vars

\* The arena and the single thread that uses it.
\* The call of bmb_nb_socket_read.  The readiness of the descriptors does not
\* change during the call; the thread in the call keeps running, so each of
\* its steps is taken when it stays enabled.
\* The open channel in a run without end, with senders that mix send,
\* try_send and send_timeout and a receiver that calls recv: the threads
\* library schedules as in FairSpec, and the receiver calls recv again
\* whenever it has returned.
LongInit ==
    /\ ChanInit(LiveCap, RoundCalls, RoundCalls, 2 * RoundCalls)
    /\ BarrierParked /\ LocksParked /\ ArcParked /\ PoolParked /\ LaterParked
LongNext ==
    \/ \E s \in Senders, v \in Values : Send(s, v)
    \/ \E s \in Senders, v \in Values : TrySend(s, v)
    \/ \E s \in Senders, v \in Values, m \in TimeoutMs : SendTimeout(s, v, m)
    \/ \E s \in Senders : SendResume(s)
    \/ \E s \in Senders : SendTimeoutResume(s)
    \/ \E s \in Holders, n \in Senders : Clone(s, n)
    \/ Recv
    \/ RecvResume
    \/ \E t \in Threads : Timeout(t)
    \/ \E t \in Threads : Spurious(t)
    \/ Forget
LongSpec ==
    /\ LongInit
    /\ [][LongNext]_vars
    /\ \A t \in Threads : WF_vars(Resume(t))
    /\ \A t \in Threads : WF_vars(Timeout(t))
    /\ WF_vars(Recv)
    /\ WF_vars(Forget)

NbStart ==
    /\ LoopInit
    /\ budget = MaxNbOps
    /\ NbInit
    /\ EarlierParked /\ ScopeParked /\ ArenaParked /\ NullParked /\ ExecParked
NbFair ==
    /\ WF_vars(NbPoll) /\ WF_vars(NbDispatch) /\ WF_vars(NbOnRecvReady)
    /\ WF_vars(NbRunOnceReturn) /\ WF_vars(NbReturn)
NbSpec == NbStart /\ [][NbNext]_vars /\ NbFair

ArenaStart == ArenaInit /\ EarlierParked /\ ScopeParked /\ LoopParked /\ NullParked /\ ExecParked /\ NbParked
ArenaSpec == ArenaStart /\ [][ArenaNext]_vars

\* A caller that passes a null handle to the operations of every API, the
\* objects of the program being as they were created.
NullStart ==
    NullInit /\ EarlierParked /\ ScopeParked /\ LoopParked /\ ArenaParked /\ ExecParked /\ NbParked
NullSpec == NullStart /\ [][NullNext]_vars

\* One executor and the thread that creates tasks, spawns them, runs the
\* executor and frees; the event loop it polls has no registration.
ExecStart ==
    ExecInit /\ EarlierParked /\ ScopeParked /\ LoopParked /\ ArenaParked /\ NullParked /\ NbParked
ExecSpec == ExecStart /\ [][ExecNext]_vars

\* ------------------------------------------------------------------ claims
RecvOps == {"recv", "try_recv", "recv_timeout", "recv_opt"}
SendOps == {"send", "try_send", "send_timeout"}

\* C1: delivery is strict FIFO.  The values enqueued so far, in order, are
\* exactly the values received so far, in order, followed by the values still
\* in the ring, oldest first: nothing is lost, duplicated or reordered, and
\* what a receive hands to its caller is the value it took from the ring.
C1_Fifo ==
    /\ enq = recvd \o Contents
    /\ (last.op \in RecvOps \ {"recv"} /\ last.ret = 1)
           => (recvd # <<>> /\ out = recvd[Len(recvd)])
    /\ (last.op = "recv" /\ last.ret # 0)
           => (recvd # <<>> /\ last.ret = recvd[Len(recvd)])

\* Two values sent and then both received on an open channel of capacity 2.
C1_Witness ==
    /\ capacity = 2 /\ ~closed /\ count = 0
    /\ enq = <<1, 2>> /\ recvd = <<1, 2>>

\* C2: count stays within [0, capacity], head and tail within [0, capacity),
\* and head is tail + count modulo capacity.
C2_RingInvariant ==
    /\ count \in 0..capacity
    /\ head \in 0..(capacity - 1)
    /\ tail \in 0..(capacity - 1)
    /\ head = (tail + count) % capacity

\* A full ring whose indices have wrapped around.
C2_Witness ==
    /\ count = capacity /\ capacity = 2 /\ head = 1 /\ tail = 1 /\ recvd # <<>>

\* Thread s is inside a blocking bmb_channel_send that has not returned.
InSend(s) == pc[s] # "idle" /\ op[s] = "send"

\* A blocking send that finds the channel open and full neither enqueues nor
\* returns; it returns only from a state with a free slot or a closed channel.
C3_BlocksWhileFull ==
    [][\A s \in Senders :
          /\ (SendMustWait /\ ((\E v \in Values : Send(s, v)) \/ SendResume(s)))
                => (InSend(s)' /\ enq' = enq /\ count' = count /\ buffer' = buffer)
          /\ (InSend(s) /\ ~InSend(s)') => (count < capacity \/ closed)
      ]_vars

\* C3 as claimed: a blocking send at capacity neither enqueues nor returns, and
\* once a slot is free while it is blocked, it enqueues and returns.
C3_Original ==
    /\ C3_BlocksWhileFull
    /\ \A s \in Senders :
          (InSend(s) /\ count < capacity /\ ~closed)
              ~> ~InSend(s)

\* C3 amended: a blocking send at capacity neither enqueues nor returns; once
\* a slot is free while it is blocked, it is woken and returns (having
\* enqueued if the channel is still open), unless the channel is full again
\* by then, another sender having taken the slot.
C3_Amended ==
    /\ C3_BlocksWhileFull
    /\ \A s \in Senders :
          (InSend(s) /\ count < capacity /\ ~closed)
              ~> (~InSend(s) \/ (count = capacity /\ ~closed))
    /\ [][\A s \in Senders :
            (SendResume(s) /\ ~SendMustWait /\ ~closed)
                => (~InSend(s)' /\ enq' = Append(enq, arg[s]))]_vars

\* A send that blocked on a full channel has returned after a receive freed a
\* slot, and its value is in the ring.
C3_Witness ==
    /\ last.op = "send" /\ ~closed /\ Len(recvd) = 1
    /\ Len(enq) = capacity + 1 /\ count = capacity /\ nsend = Len(enq)

\* The step is thread s running a part of one of the three send functions.
SenderStep(s) ==
    \/ \E v \in Values : Send(s, v) \/ TrySend(s, v)
    \/ \E v \in Values, m \in TimeoutMs : SendTimeout(s, v, m)
    \/ SendResume(s)
    \/ SendTimeoutResume(s)

\* C4: once the channel is closed it stays closed and no send enqueues: the
\* ring's contents and head never change again and count never grows; every
\* send, try_send and send_timeout step, also that of a send that was blocked
\* when the close happened, returns leaving the ring as it was, and try_send
\* and send_timeout report 0.
C4_NoEnqueueAfterClose ==
    [][closed =>
          /\ closed' /\ enq' = enq /\ buffer' = buffer /\ head' = head
          /\ count' <= count
          /\ \A s \in Senders :
                SenderStep(s) =>
                    /\ pc'[s] = "idle" /\ count' = count /\ tail' = tail
                    /\ last'.op \in SendOps
                    /\ last'.op # "send" => last'.ret = 0
      ]_vars

\* A send_timeout has returned 0 on a closed channel that had a free slot.
C4_Witness ==
    /\ closed /\ count < capacity
    /\ last.op = "send_timeout" /\ last.ret = 0

\* The values handed out by the try_recv calls that returned after the close.
Drained ==
    LET F[i \in 0..Len(drain)] ==
            IF i = 0 THEN <<>>
            ELSE IF drain[i][1] = 1 THEN Append(F[i - 1], drain[i][2])
            ELSE F[i - 1]
    IN F[Len(drain)]

\* C5: close discards nothing (what was buffered at the close is what has
\* been received since, followed by what is still buffered), and when only
\* try_recv is called after a close that found k values buffered, the first k
\* calls succeed with those values in order and every later call reports 0.
C5_DrainAfterClose ==
    (closed /\ ~mixed) =>
        /\ snap = Drained \o Contents
        /\ \A i \in 1..Len(drain) :
               IF i <= Len(snap)
               THEN drain[i] = <<1, snap[i]>>
               ELSE drain[i][1] = 0

\* A close with two values buffered, then two try_recv that returned them and
\* a third that reported empty.
C5_Witness ==
    /\ closed /\ ~mixed /\ Len(snap) = 2 /\ Len(drain) = 3

\* C6: close sets the closed flag and wakes every thread blocked in a wait;
\* from then on nobody is blocked in a wait, and every thread that was inside a
\* send, recv, recv_opt, send_timeout or recv_timeout at the close returns (a
\* moment comes when no thread is inside a call); a
\* receiver that returns from a closed, empty channel gets 0 and no value; a
\* second close changes nothing of the channel.
C6_CloseWakesAll ==
    /\ [][\A s \in Holders :
            Close(s) =>
                /\ closed'
                /\ \A t \in Threads : pc[t] = "wait" => pc'[t] = "ready"
                /\ closed => UNCHANGED <<buffer, head, tail, count, closed, pc,
                                         op, arg, ms, sender_count, handles,
                                         out, enq, recvd, snap, drain>>
       ]_vars
    /\ [](closed => \A t \in Threads : pc[t] # "wait")
    /\ closed ~> (\A t \in Threads : pc[t] = "idle")
    /\ [][(closed /\ count = 0 /\ pc[Receiver] # "idle"
              /\ pc'[Receiver] = "idle")
             => (last'.op \in RecvOps /\ last'.ret = 0 /\ out' = out
                   /\ recvd' = recvd)]_vars

\* Close has just woken two senders that were blocked on the full channel.
C6_Witness ==
    /\ closed /\ last.op = "close"
    /\ \E s, t \in Senders : s # t /\ pc[s] = "ready" /\ pc[t] = "ready"

\* What a flagged send that returns in this step must have done, given the
\* state it ran in: 1 and its value appended to the ring if the channel was
\* open with a free slot, else 0 and nothing of the channel touched.
FlaggedSendDone(v) ==
    /\ last'.ret = (IF count < capacity /\ ~closed THEN 1 ELSE 0)
    /\ last'.ret = 1 =>
          /\ Contents' = Append(Contents, v) /\ enq' = Append(enq, v)
          /\ tail' = tail /\ closed' = closed
    /\ last'.ret = 0 =>
          UNCHANGED <<buffer, head, tail, count, closed, enq, recvd, out>>

\* The same for a flagged receive: 1 and the oldest value in *value_out if
\* the ring held a value, else 0 and nothing touched.
FlaggedRecvDone ==
    /\ last'.ret = (IF count > 0 THEN 1 ELSE 0)
    /\ last'.ret = 1 =>
          /\ out' = Contents[1] /\ Contents' = Tail(Contents)
          /\ recvd' = Append(recvd, Contents[1])
          /\ head' = head /\ closed' = closed /\ enq' = enq
    /\ last'.ret = 0 =>
          UNCHANGED <<buffer, head, tail, count, closed, enq, recvd, out>>

\* C7: try_send and try_recv never block (the step that calls is the step
\* that returns) and report a flag: try_send gives 1 and enqueues iff
\* count < capacity and the channel is open, try_recv gives 1 and the oldest
\* value iff count > 0, and a 0 leaves buffer, head, tail, count and closed as
\* they were.
C7_TryOps ==
    [][/\ \A s \in Senders, v \in Values :
            TrySend(s, v) =>
                (pc'[s] = "idle" /\ last'.op = "try_send" /\ FlaggedSendDone(v))
       /\ TryRecv =>
            (pc'[Receiver] = "idle" /\ last'.op = "try_recv" /\ FlaggedRecvDone)
       /\ last'.op = "try_send" => \E s \in Senders : pc[s] = "idle" /\ pc'[s] = "idle"
       /\ last'.op = "try_recv" => pc[Receiver] = "idle" /\ pc'[Receiver] = "idle"
      ]_vars

\* The concrete case: capacity 2, the sends of 1 and 2 went in, the third
\* call, a try_send of 3, reported 0, and two receives returned 1 and then 2.
C7_Witness ==
    /\ capacity = 2 /\ ~closed /\ nsend = 3 /\ nrecv = 2
    /\ enq = <<1, 2>> /\ recvd = <<1, 2>>
    /\ last = [op |-> "recv", ret |-> 2]

\* Thread t is inside a send_timeout / recv_timeout with a finite timeout.
InTimed(t) == pc[t] # "idle" /\ op[t] \in {"send_timeout", "recv_timeout"} /\ ms[t] >= 0

\* send_timeout / recv_timeout with a finite timeout always return, the wait
\* ending at the deadline at the latest: again and again no thread is inside
\* such a call.
C8_Bounded == []<>(\A t \in Threads : ~InTimed(t))

\* With ms < 0 the timed calls wait as send / recv_opt do: there is no
\* deadline, and they return only from a state that is not (full and open),
\* resp. not (empty and open).
C8_Negative ==
    /\ [](\A t \in Threads : ms[t] < 0 => pc[t] # "timedout")
    /\ [][\A t \in Threads :
            (op[t] \in {"send_timeout", "recv_timeout"} /\ ms[t] < 0
                /\ pc[t] # "idle" /\ pc'[t] = "idle")
              => IF t = Receiver THEN ~RecvMustWait ELSE ~SendMustWait]_vars

\* C8 as claimed: the wait is bounded; a call whose deadline passed without
\* the channel ever having had room (resp. a value), and which finds none
\* when it takes the lock back, returns 0 and leaves the channel unchanged; a
\* call that saw room (resp. a value) before its deadline, on a channel still
\* open, returns 1 having moved one value.
C8_Original ==
    /\ C8_Bounded
    /\ C8_Negative
    /\ [][\A t \in Threads :
            (InTimed(t) /\ pc'[t] = "idle") =>
                /\ (pc[t] = "timedout" /\ ~avail[t]
                      /\ (IF t = Receiver THEN RecvMustWait ELSE SendMustWait)) =>
                      /\ last'.ret = 0
                      /\ UNCHANGED <<buffer, head, tail, count, closed>>
                /\ (avail[t] /\ ~closed) =>
                      /\ last'.ret = 1
                      /\ Len(IF t = Receiver THEN recvd' ELSE enq')
                           = Len(IF t = Receiver THEN recvd ELSE enq) + 1
      ]_vars

\* C8 amended: the wait is bounded, and what the call returns is decided by
\* the state in which it holds the lock for the last time, after its wake-up
\* or its deadline: 1 with exactly one value enqueued (resp. dequeued) if the
\* channel is then open with a free slot (resp. holds a value), else 0 with
\* the channel unchanged; with ms < 0 it waits as send / recv_opt do.
C8_Amended ==
    /\ C8_Bounded
    /\ C8_Negative
    /\ [][/\ \A s \in Senders :
               /\ (SendTimeoutResume(s) /\ pc'[s] = "idle")
                     => FlaggedSendDone(arg[s])
               /\ \A v \in Values, m \in TimeoutMs :
                     (SendTimeout(s, v, m) /\ pc'[s] = "idle")
                        => FlaggedSendDone(v)
          /\ last'.op = "send_timeout" =>
               last'.ret = (IF count < capacity /\ ~closed THEN 1 ELSE 0)
          /\ last'.op = "recv_timeout" => FlaggedRecvDone
      ]_vars

\* A send_timeout has given up: it returned 0 on an open channel, which is
\* full.
C8_Witness ==
    /\ last = [op |-> "send_timeout", ret |-> 0]
    /\ ~closed /\ count = capacity

\* C9: in each generation exactly one caller of wait() gets leader = 1, the
\* one that makes the n-th arrival, and the others get 0: a generation has a
\* leader exactly when its n-th call has arrived, never two, at most n - 1
\* calls of it return 0, and the step that returns 1 is the n-th arrival.
C9_OneLeader ==
    /\ [](\A g \in Generations :
            /\ arrivals[g] <= threshold
            /\ leaders[g] = (IF arrivals[g] = threshold THEN 1 ELSE 0)
            /\ followers[g] <= threshold - 1
            /\ leaders[g] + followers[g] <= arrivals[g]
            /\ g < generation <=> arrivals[g] = threshold)
    /\ [][\A g \in Generations :
            leaders'[g] > leaders[g] =>
                /\ g = generation
                /\ arrivals[g] = threshold - 1
                /\ arrivals'[g] = threshold]_vars

\* Two generations of a barrier of two have completed: each has its leader
\* and its one follower.
C9_Witness ==
    /\ threshold = 2 /\ generation = 2
    /\ \A g \in 0..1 : leaders[g] = 1 /\ followers[g] = 1

\* C10: no call of a generation returns before n calls of that generation
\* have arrived, and once the n-th has arrived all n return.
C10_AllArriveThenAllReturn ==
    /\ [](\A g \in Generations :
            (leaders[g] + followers[g] > 0) => arrivals[g] = threshold)
    /\ \A g \in Generations :
            (arrivals[g] = threshold)
                ~> (leaders[g] + followers[g] = threshold)

\* Three threads met at a barrier of three: the generation is complete and
\* every call of it has returned.
C10_Witness ==
    /\ threshold = 3 /\ generation >= 1
    /\ arrivals[0] = 3 /\ leaders[0] + followers[0] = 3
    /\ \A t \in BThreads : bpc[t] = "idle"

\* Thread t is inside a wait() of a generation that is already complete.
SlowWaiter(t) == bpc[t] # "idle" /\ gen[t] < generation

\* C11: the barrier is reusable without confusion between rounds.  Whenever
\* the lock is free the count is in [0, n-1]; the count goes back to 0 and the
\* generation goes up by one in the same step, that of the n-th arrival, and
\* in no other; a call that arrives while waiters of an earlier round have not
\* yet returned counts toward the current round only; a call returns only
\* when its own round is complete; and the waiters of a complete round
\* return whatever later arrivals do.
C11_Reusable ==
    /\ [](b_count \in 0..(threshold - 1))
    /\ [][/\ (generation' # generation) =>
                /\ generation' = generation + 1
                /\ b_count = threshold - 1 /\ b_count' = 0
          /\ (b_count' < b_count) => generation' = generation + 1
          /\ \A t \in BThreads :
                /\ (BarrierWait(t) /\ b_count + 1 = threshold) =>
                      (generation' = generation + 1 /\ b_count' = 0)
                /\ (BarrierWait(t) /\ \E s \in BThreads : SlowWaiter(s)) =>
                      /\ gen'[t] = generation
                      /\ arrivals' = [arrivals EXCEPT ![generation] = @ + 1]
                      /\ \A s \in BThreads : SlowWaiter(s) => gen'[s] = gen[s]
                /\ (bpc[t] # "idle" /\ bpc'[t] = "idle") =>
                      (gen[t] < generation /\ arrivals[gen[t]] = threshold)
         ]_vars
    /\ [](\A t \in BThreads :
            (bpc[t] # "idle" /\ gen[t] = generation) =>
                arrivals[generation] = b_count)
    /\ \A t \in BThreads : SlowWaiter(t) ~> (bpc[t] = "idle")

\* A fast thread waits in round 1 while a slow thread of round 0, woken by
\* the broadcast, has not yet returned.
C11_Witness ==
    /\ threshold = 2 /\ generation = 1 /\ b_count = 1
    /\ \E s, t \in BThreads :
          /\ bpc[s] = "ready" /\ gen[s] = 0
          /\ bpc[t] = "wait" /\ gen[t] = 1

\* The threads inside the mutex.
MutexHolders == {t \in LThreads : holds[t] > 0}

\* C12: the mutex excludes: at most one thread holds it, and a lock() or
\* try_lock() of a thread gets it only when no other thread holds it; every
\* lock() returns the value of the latest unlock (the initial value if there
\* was none); and with every holder storing the value it read plus one, the
\* stored value counts the unlocks: no update is lost.
C12_MutualExclusion ==
    /\ [](Cardinality(MutexHolders) <= 1)
    /\ [](m_data = nunlock /\ m_data = m_unlocked)
    /\ [][\A t \in LThreads :
            /\ (holds'[t] > holds[t]) =>
                  /\ \A u \in LThreads \ {t} : holds[u] = 0 /\ holds'[u] = 0
                  /\ llast'.t = t /\ llast'.ret = m_unlocked
            /\ (llast'.op = "lock" /\ llast'.t = t) =>
                  (holds'[t] = 1 /\ llast'.ret = m_unlocked)
         ]_vars

\* A lock() has returned the value 2, stored by the second unlock, while
\* another thread is blocked in its lock().
C12_Witness ==
    /\ llast.op = "lock" /\ llast.ret = 2 /\ nunlock = 2
    /\ \E u \in LThreads : lpc[u] = "locking"

\* The call that returned in this step acquired nothing and changed nothing.
FailedTry(t, sentinel) ==
    /\ llast'.ret = sentinel
    /\ UNCHANGED <<holds, m_data, rw_readers, rw_writers, rw_data, lpc>>

\* C13: the try operations never block and report contention by a sentinel.
\* try_lock takes the mutex and returns the stored value if the mutex is
\* free, and else returns 0; try_read (try_write) takes the lock and returns
\* the stored value if the lock is available for reading (writing), and else
\* returns -1; a failed try changes neither the holders nor the stored value
\* and leaves the caller holding nothing more.
C13_TryOps ==
    [][\A t \in TryThreads :
          /\ MutexTryLock(t) =>
                /\ lpc'[t] = "idle" /\ llast'.op = "try_lock"
                /\ IF MutexFree
                   THEN /\ llast'.ret = m_data /\ holds'[t] = 1
                        /\ m_data' = m_data
                   ELSE FailedTry(t, 0)
          /\ RwTryWrite(t) =>
                /\ lpc'[t] = "idle" /\ llast'.op = "try_write"
                /\ IF WriteAdmitted
                   THEN /\ llast'.ret = rw_data /\ rw_writers' = {t}
                        /\ rw_data' = rw_data
                   ELSE FailedTry(t, 0 - 1)
          /\ RwTryRead(t) =>
                /\ lpc'[t] = "idle" /\ llast'.op = "try_read"
                /\ \/ /\ ReadAdmitted
                      /\ llast'.ret = rw_data
                      /\ rw_readers'[t] = rw_readers[t] + 1
                      /\ rw_data' = rw_data /\ rw_writers' = rw_writers
                   \/ /\ ~ReadAdmitted \/ WriterBlocked
                      /\ FailedTry(t, 0 - 1)
      ]_vars

\* The threads that hold the lock for reading.
RwReaders == {t \in LThreads : rw_readers[t] > 0}

\* C14: N readers or one writer.  In every state either no thread holds the
\* lock for writing, or exactly one does and none holds it for reading; the
\* stored value changes only in a write_unlock of the writer; and a reader
\* gets, and sees for as long as it holds the lock, the value of the latest
\* completed write_unlock (the initial value if there was none).
C14_ReadersXorWriter ==
    /\ [](\/ rw_writers = {}
          \/ Cardinality(rw_writers) = 1 /\ RwReaders = {})
    /\ [](rw_data = rw_written /\ rw_data = nwrite)
    /\ [](\A t \in RwReaders : rval[t] = rw_written)
    /\ [][/\ (rw_data' # rw_data) =>
                \E t \in rw_writers : RwWriteUnlock(t) /\ rw_writers = {t}
          /\ \A t \in LThreads :
                (rw_readers'[t] > rw_readers[t]) =>
                    (llast'.t = t /\ llast'.ret = rw_written)
         ]_vars

\* Two threads read the value of the first write_unlock at the same time,
\* while a third is blocked in write().
C14_Witness ==
    /\ rw_data = 1 /\ Cardinality(RwReaders) = 2
    /\ \A t \in RwReaders : rval[t] = 1
    /\ \E u \in LThreads : lpc[u] = "writing"

\* The handles owned by the threads of set T.
RECURSIVE OwnedBy(_)
OwnedBy(T) ==
    IF T = {} THEN 0
    ELSE LET t == CHOOSE x \in T : TRUE IN owned[t] + OwnedBy(T \ {t})

\* C15: the Arc starts with strong_count 1; clone returns the same handle and
\* adds exactly 1, drop subtracts exactly 1, get leaves the count alone; so
\* the count is 1 plus the clones minus the drops in every interleaving, and
\* k clones with k drops leave it where it was.
C15_CountBalance ==
    /\ []((nclone = 0 /\ ndrop = 0) => refcount = 1)
    /\ [](refcount = 1 + nclone - ndrop)
    /\ [](alast.op = "strong_count" => alast.ret = refcount)
    /\ [][\A t \in AThreads :
            /\ \A u \in AThreads :
                  ArcClone(t, u) =>
                      (refcount' = refcount + 1 /\ alast'.ret = ArcHandle)
            /\ ArcDrop(t) => refcount' = refcount - 1
            /\ ArcGet(t) => (refcount' = refcount /\ alast'.ret = ArcValue)
         ]_vars

\* Three clones and three drops, made by the three threads, have left the
\* count at 1, as strong_count reports.
C15_Witness ==
    /\ nclone = 3 /\ ndrop = 3 /\ refcount = 1
    /\ alast = [op |-> "strong_count", ret |-> 1]
    /\ owned[1] = 0

\* C16: the count reaches zero once and the storage is freed once, by the
\* drop that takes the count from 1 to 0, which is the drop of the last
\* handle owned: never while a handle is still owned, never twice, and no
\* call touches the Arc after the free.
C16_FreedOnce ==
    /\ [](freed <= 1 /\ ~stale)
    /\ [](freed = 1 <=> refcount = 0)
    /\ [](refcount = OwnedBy(AThreads))
    /\ [][(freed' # freed) =>
            /\ refcount = 1 /\ refcount' = 0 /\ freed' = 1
            /\ OwnedBy(AThreads) = 1
            /\ \E t \in AThreads : ArcDrop(t)]_vars

\* The creator and the owners of three clones have each dropped their
\* handle, and the last of these drops has freed the Arc.
C16_Witness ==
    /\ freed = 1 /\ nclone = 3 /\ ndrop = 4
    /\ alast.op = "drop"

\* wait(mutex) releases the mutex and becomes a waiter in the same step, so
\* that a notify made by whoever takes the mutex next finds it waiting; it
\* returns only from the woken state, taking a free mutex, with the value
\* stored then; in a notify_one step with waiters at least one of them is
\* woken, in a notify_all step all of them are.
C17_WaitAndNotify ==
    [][\A t \in LThreads :
          /\ CondvarWait(t) =>
                (holds[t] = 1 /\ holds'[t] = 0 /\ lpc'[t] = "cvwait")
          /\ (llast'.op = "wait" /\ llast'.t = t) =>
                /\ lpc[t] = "cvready" /\ MutexFree
                /\ holds'[t] = 1 /\ llast'.ret = m_data'
          /\ CondvarNotifyOne(t) =>
                (CvWaiters # {} => \E w \in CvWaiters : lpc'[w] = "cvready")
          /\ CondvarNotifyAll(t) =>
                (\A w \in CvWaiters : lpc'[w] = "cvready")
      ]_vars

\* A waiter stops waiting only in a notify step.
C17_UntilNotified ==
    [][\A t \in LThreads :
          (lpc[t] = "cvwait" /\ lpc'[t] # "cvwait") =>
              llast'.op \in {"notify_one", "notify_all"}]_vars

\* C17 as claimed: wait releases and waits atomically, blocks until it is
\* notified, returns after re-acquiring the mutex with its value;
\* notify_one wakes at least one waiter, notify_all all of them.
C17_Original == C17_WaitAndNotify /\ C17_UntilNotified

\* C17 amended: the same, except that the wait ends by a notify or by a
\* spurious wake-up: the waiter stops waiting only in a notify step or a
\* wake-up of its own, and still returns only after re-acquiring the mutex.
C17_Amended ==
    /\ C17_WaitAndNotify
    /\ [][\A t \in LThreads :
            (lpc[t] = "cvwait" /\ lpc'[t] # "cvwait") =>
                /\ lpc'[t] = "cvready" /\ holds'[t] = 0
                /\ \/ llast'.op \in {"notify_one", "notify_all"}
                   \/ CondvarSpurious(t)]_vars

\* A wait has returned the value 1, stored while it waited, and another
\* waiter, woken too, has yet to get the mutex.
C17_Witness ==
    /\ llast.op = "wait" /\ llast.ret = 1 /\ nunlock = 1
    /\ \E u \in LThreads : lpc[u] = "cvready"

\* The set of the elements of sequence q.
Range(q) == {q[i] : i \in 1..Len(q)}

C19_JoinWaits ==
    /\ [][PoolJoin => (shutdown' /\ ppc' = "joining")]_vars
    /\ [](ppc = "joined" => \A w \in Started : wpc[w] = "exited")
    /\ (ppc = "joining") ~> (ppc = "joined")

C20_Shutdown ==
    /\ [][PoolShutdown =>
            /\ shutdown' /\ ppc' = "open"
            /\ \A w \in Started :
                  wpc'[w] = (IF wpc[w] = "wait" THEN "ready" ELSE wpc[w])
         ]_vars
    /\ [](shutdown => \A w \in Started : wpc[w] # "wait")
    /\ [][\A w \in Started :
            (WorkerTake(w) /\ shutdown /\ task_queue = <<>>) =>
                wpc'[w] = "exited"]_vars
    /\ shutdown ~> AllExited

\* shutdown was called, not join, while a worker was running a task and
\* another was waiting: all the workers have exited, and the tasks submitted
\* before have run.
C20_Witness ==
    /\ ppc = "open" /\ shutdown /\ num_workers = 2 /\ AllExited
    /\ nexec = 2 /\ counter = 2

\* C21: when wait has returned, every thread that spawn had registered in the
\* scope before the wait call has terminated and been joined, and the scope
\* owns no thread; the owner makes all its spawn calls before its one wait.
C21_WaitJoinsAll ==
    spc = "returned" =>
        /\ \A t \in registered : child[t] = "done" /\ t \in joined
        /\ scope_threads = <<>>
        /\ joining = <<>>

C21_Witness ==
    /\ spc = "returned"
    /\ Cardinality(registered) >= 2
    /\ nspawn > Cardinality(registered)

\* The active entries of the table, whatever entry_count says.
ActiveSlots(fd) == {i \in Slots : entries[i].active = 1 /\ entries[i].fd = fd}

\* No descriptor has two active entries.
C22_AtMostOne == \A fd \in Fds : Cardinality(ActiveSlots(fd)) <= 1

\* A register call with a callback, on a descriptor that has an active entry,
\* leaves that entry with the interest mask, callback and user_data of the
\* call, and every other entry as it was.
UpdatesInPlace(fd, e, h) ==
    LET idx == find_entry(entries, entry_count, fd)
    IN  (Register(fd, e, h.callback, h.user_data) /\ idx >= 0 /\ h.callback # 0)
        => /\ entries'[idx] = [fd |-> fd, events |-> e, callback |-> h.callback,
                               user_data |-> h.user_data, active |-> 1]
           /\ \A i \in Slots \ {idx} : entries'[i] = entries[i]
           /\ entry_count' = entry_count

\* C22: in every reachable state the event loop has at most one active entry
\* per descriptor, and register on a descriptor that already has an active
\* entry updates that entry's interest mask, callback and user_data in place
\* and adds no second entry, for any sequence of register and unregister.
C22_OneEntryPerFd ==
    /\ [](C22_AtMostOne)
    /\ [][\A fd \in Fds, e \in Interests, h \in Handlers :
            UpdatesInPlace(fd, e, h)]_vars

\* C23: unregister(fd) removes the watch of fd and is idempotent: a second
\* unregister(fd) leaves the loop as the first left it, and unregister of a
\* descriptor that has no active watch changes nothing in the table.
C23_UnregisterIdempotent ==
    [][\A fd \in Fds :
          Unregister(fd) =>
            /\ ActiveSlots(fd)' = {}
            /\ \A d \in Fds \ {fd} : ActiveSlots(d)' = ActiveSlots(d)
            /\ ep'[fd] = NoWatch
            /\ ActiveSlots(fd) = {} => UNCHANGED <<entries, entry_count, ep>>
            /\ (eret.op = "unregister" /\ eret.fd = fd)
                  => UNCHANGED <<entries, entry_count, stopped, ep>>]_vars

\* unregister(1) has been called twice after register(1).
C23_Witness ==
    /\ eret = [op |-> "unregister", fd |-> 1, ret |-> BMB_EL_ERROR]
    /\ \E i \in Slots : entries[i].fd = 1 /\ entries[i].active = 0
    /\ nops = MaxLoopOps

\* C24: a descriptor that was registered and then unregistered, and not
\* registered again, has no callback invoked by any run_once called after the
\* unregister, whatever it is ready for by then.
C24_NoCallbackAfterUnregister ==
    [][(Dispatch /\ Len(fired') > Len(fired))
          => fired'[Len(fired')].fd \notin muted]_vars

\* A run_once has returned while a descriptor unregistered before it was
\* ready for the events it had been registered for.
C24_Witness ==
    /\ rpc = "idle"
    /\ eret.op = "run_once"
    /\ stopped = 0
    /\ \E i \in Slots : /\ entries[i].active = 0
                        /\ entries[i].fd \in muted
                        /\ entries[i].fd \in Sockets
                        /\ Revents(entries[i].events, ready[entries[i].fd]) # 0

\* The callbacks of the last pass that were invoked for the descriptor.
FiredFor(fd) == {i \in 1..Len(fired) : fired[i].fd = fd}

\* The run_once(0) that started first after the registration has returned
\* having invoked the callback of every such descriptor once, with the
\* WRITE bit, and has returned the number of callbacks it invoked.
FirstPassFires ==
    (rpc = "idle" /\ eret.op = "run_once") =>
        /\ eret.ret = Len(fired)
        /\ \A fd \in expect :
              /\ Cardinality(FiredFor(fd)) = 1
              /\ \A i \in FiredFor(fd) :
                    /\ HasBit(fired[i].events, BMB_EVENT_WRITE)
                    /\ \E k \in Slots :
                          /\ entries[k].active = 1 /\ entries[k].fd = fd
                          /\ fired[i].callback = entries[k].callback
                          /\ fired[i].user_data = entries[k].user_data
              /\ eret.ret >= 1

C26_StopIsPermanent ==
    [][/\ stopped = 1 => stopped' = 1
       /\ LoopStop => (stopped' = 1 /\ UNCHANGED <<entries, entry_count, ep>>)
       /\ (stopped = 1 /\ LoopIsStopped) => eret'.ret = 1
       /\ \A tm \in RunTimeouts :
             (stopped = 1 /\ RunOnce(tm)) =>
                /\ eret' = [op |-> "run_once", fd |-> 0, ret |-> 0]
                /\ rpc' = "idle"
                /\ polled' = <<>>
                /\ fired' = <<>>]_vars

\* run_once has returned 0 on a stopped loop that has an active entry whose
\* descriptor is ready for the event registered.
C26_Witness ==
    /\ stopped = 1
    /\ rpc = "idle"
    /\ eret = [op |-> "run_once", fd |-> 0, ret |-> 0]
    /\ \E i \in Slots : /\ entries[i].active = 1
                        /\ Revents(entries[i].events, ready[entries[i].fd]) # 0
                        /\ (backend = "epoll" => ep[entries[i].fd] # NoWatch)

\* C27: after any sequence of arena calls the accounted total (what usage
\* reports) is no more than the configured maximum; an allocation that would
\* take it past the maximum terminates the process instead.
C27_TotalWithinMax == g_arena_total_allocated <= env_max

\* Two regions of one block share no byte.
Disjoint(r, q) ==
    r.block # q.block \/ r.offset + r.size <= q.offset
                      \/ q.offset + q.size <= r.offset

\* Every region returned and still valid starts at a multiple of 8 in its
\* block, lies inside that block, and is disjoint from every other.
RegionsSound ==
    \A r \in regions :
        /\ r.offset % 8 = 0
        /\ r.size % 8 = 0
        /\ r.block \in heap_live
        /\ r.offset + r.size <= blk[r.block].used
        /\ blk[r.block].used <= blk[r.block].capacity
        /\ \A q \in regions \ {r} : Disjoint(r, q)

\* The fatal path ends the process with the blocks, their offsets and the
\* total as they were.
FatalIsClean ==
    (~exited /\ exited' /\ ares'.op = "fatal")
        => UNCHANGED <<blk, heap_live, nblocks, g_arena_head, g_arena_current,
                       g_arena_total_allocated, regions>>

CleanRestore == ArenaRestore(FALSE) /\ clean /\ ~undefined

\* C29: for any allocations between a save and the restore that follows,
\* after the restore the current block is the block that was current at the
\* save, its used offset is the saved offset, every block appended since the
\* save is freed and unlinked, the accounted total is the total at the save,
\* and an allocation made next reuses the space given out since the save.
C29_SaveRestoreRoundTrip ==
    [][/\ CleanRestore =>
            /\ g_arena_current' = checkpoint.current
            /\ heap_live' = checkpoint.live
            /\ g_arena_total_allocated' = checkpoint.total
            /\ checkpoint.current # 0 =>
                  /\ blk'[checkpoint.current].used = checkpoint.used
                  /\ blk'[checkpoint.current].next = 0
            /\ \A r \in regions' : /\ r \in regions
                                   /\ r.block \in checkpoint.live
                                   /\ r.block = checkpoint.current
                                        => r.offset + r.size <= checkpoint.used
       /\ \A n \in Sizes :
            (ArenaAlloc(n) /\ ares.op = "restore" /\ clean /\ ~undefined
               /\ Fits(AlignUp(n)))
            => /\ ares'.block = checkpoint.current
               /\ ares'.offset = checkpoint.used]_vars

\* An allocation after a restore has been given the offset of the save, the
\* restore having freed a block.
C29_Witness ==
    /\ ares.op = "alloc"
    /\ ares.size > 0
    /\ clean
    /\ ~undefined
    /\ ares.block = checkpoint.current
    /\ ares.offset = checkpoint.used
    /\ checkpoint.used > 0
    /\ heap_live = checkpoint.live
    /\ nblocks > Cardinality(heap_live)

\* C30: every operation of the mutex, rwlock, arc, barrier, condvar, channel,
\* executor, thread-pool, scope and event-loop APIs called with a null
\* handle returns, leaves every object as it was and the process running.
C30_NullHandleIsNoOp ==
    [][nnull' # nnull => (proc' = "running" /\ UNCHANGED notNull)]_vars

\* The tasks waiting in the queue.
Queued == {task_queue[i] : i \in DOMAIN task_queue}

\* Worker w leaves its critical section with a task in this step.
Dequeues(w) == wpc[w] \in {"top", "ready"} /\ wpc'[w] = "run"

InHand == {wtask[w] : w \in {x \in Started : wpc[x] \in {"run", "done"}}}

\* C39: a task is in one place only: waiting in the queue once, or in the
\* hands of one worker, or finished; every invocation of a task function is
\* of a task not invoked before (the counter the functions increment equals
\* the number of distinct tasks that have run); and active_tasks counts the
\* workers between dequeue and decrement, so lies in 0..num_workers.
C39_AtMostOnce ==
    /\ \A i, j \in DOMAIN task_queue : i # j => task_queue[i] # task_queue[j]
    /\ Queued \cap InHand = {}
    /\ Queued \cap ran = {}
    /\ \A w, x \in Started :
          (w # x /\ wpc[w] \in {"run", "done"} /\ wpc[x] \in {"run", "done"})
             => wtask[w] # wtask[x]
    /\ \A w \in Started : wpc[w] = "run" => wtask[w] \notin ran
    /\ counter = Cardinality(ran)
    /\ active_tasks = Cardinality({w \in Started : wpc[w] \in {"run", "done"}})
    /\ 0 <= active_tasks
    /\ active_tasks <= num_workers

\* Every worker is running a task while the shutdown flag is set and a task
\* waits, and a task has already run.
C39_Witness ==
    /\ active_tasks = num_workers
    /\ num_workers = MaxWorkers
    /\ shutdown
    /\ task_queue # <<>>
    /\ ran # {}

\* A call of bmb_executor_run is made in this step, on a queue that holds no
\* freed task.
RunsOnLiveQueue ==
    /\ nx' # nx
    /\ xret'.op = "run"
    /\ \A t \in InQueue : etasks[t].mem = "live"

\* C32: a task made by task_new is Completed; spawn counts it; and every
\* call of run returns after one pass and one poll of the event loop, with
\* no task of the queue Pending and completed_count equal to the number of
\* tasks spawned.
C32_RunCompletesAll ==
    /\ [](\A t \in TaskIds :
            etasks[t].mem = "live" => etasks[t].state = TASK_COMPLETED)
    /\ [][RunsOnLiveQueue =>
            /\ xpc' = "idle"
            /\ polls' = polls + 1
            /\ \A t \in InQueue' : etasks'[t].state # TASK_PENDING
            /\ completed_count' = task_count']_vars

\* A call of bmb_executor_block_on or of bmb_block_on returns in this step.
BlockOnReturns ==
    /\ nx' # nx
    /\ xret'.op \in {"block_on", "bmb_block_on"}
    /\ xpc' = "idle"

\* C33: block_on returns the value it was given, and when it returns the
\* task it created has been freed and is in no executor queue.
C33_BlockOnFrees ==
    [][BlockOnReturns =>
          /\ xret'.ret = xret'.arg
          /\ etasks'[xret'.task].mem = "freed"
          /\ xret'.task \notin InQueue']_vars

\* bmb_arena_restore runs in this step with a checkpoint recorded.
RestoreRuns ==
    /\ narena' # narena
    /\ ares'.op \in {"restore", "crash"}
    /\ g_arena_save_block # 0

\* C34: whenever restore runs with a checkpoint, the block save recorded is
\* still allocated and still linked in the block list of the arena, and
\* restore does not raise the used offset of a block.
C34_CheckpointNotStale ==
    [][RestoreRuns =>
          /\ g_arena_save_block \in heap_live
          /\ g_arena_save_block \in Chain(g_arena_head)
          /\ \A b \in heap_live : blk'[b].used <= blk[b].used]_vars

\* run_once invokes a callback in this step.
Invokes == rpc \in {"dispatch", "callback"} /\ dispatched' = dispatched + 1

\* C35: the entry whose callback run_once invokes is active at that moment
\* and is the entry of the descriptor the poll reported, so that a
\* descriptor unregistered by a callback earlier in the pass is not called.
C35_CallbackOnlyIfActive ==
    [][Invokes =>
          /\ entries[DispatchIndex(Head(polled))].active = 1
          /\ entries[DispatchIndex(Head(polled))].fd = Head(polled).fd]_vars

\* The number of active entries of the table.
ActiveCount == Cardinality({i \in Slots : entries[i].active = 1})

\* A call of register has returned BMB_EL_ERROR in this step.
RegisterFails ==
    /\ nops' # nops
    /\ eret'.op = "register"
    /\ eret'.ret = BMB_EL_ERROR

\* C36: when register returns BMB_EL_ERROR the table is as it was before
\* the call: no entry added, activated or modified, entry_count the same.
C36_ErrorLeavesTable ==
    [][RegisterFails => UNCHANGED <<entries, entry_count>>]_vars

\* register is called in this step with a non-null callback while fewer
\* than BMB_MAX_FDS entries are active, and the kernel accepts the
\* descriptor.
RegisterOwed(fd, events, h) ==
    /\ Register(fd, events, h.callback, h.user_data)
    /\ h.callback # 0
    /\ ActiveCount < BMB_MAX_FDS
    /\ backend = "epoll" => EpollCtlOk(ActiveSlots(fd) # {}, fd)

\* C37: register succeeds whenever its callback is non-null and fewer than
\* BMB_MAX_FDS entries are active, the slots released by unregister being
\* free to take: no sequence of calls leaves the loop refusing registrations
\* while it has a free slot.
C37_FreeSlotsAreUsable ==
    [][\A fd \in Fds, e \in Interests, h \in Handlers :
          RegisterOwed(fd, e, h) => eret'.ret = BMB_EL_OK]_vars


\* ---------------------------------------------------------------------
\* bmb_nb_socket_read returns.
\* ---------------------------------------------------------------------

\* C38: a call of nb_read on a connected socket that can be read or has an
\* error pending returns, whatever state the shared event loop was in when
\* the call was made: stopped or not, with or without room in its table.
C38_NbReadReturns ==
    (nb_pc = "polling" /\ Readable(nb_sock)) ~> (nb_pc = "returned")

\* ---------------------------------------------------------------------
\* The channel loses no wake-up.
\* ---------------------------------------------------------------------

\* The receiver is inside a blocking bmb_channel_recv that has not returned.
InRecv == pc[Receiver] # "idle" /\ op[Receiver] = "recv"

\* A sender that was woken, or whose timed wait ran out, and has yet to run.
PendingSender == \E t \in Senders : pc[t] \in {"ready", "timedout"}

\* No sender sleeps on not_full beside a free slot of an open channel unless
\* a woken sender is on its way to it, and the receiver never sleeps on
\* not_empty beside a value.
NoLostWakeUp ==
    /\ (~closed /\ count < capacity /\ SendWaiters(pc) # {}) => PendingSender
    /\ ~(count > 0 /\ RecvWaiters(pc) # {})

\* A value enqueued while the receiver is blocked in recv gets the receiver
\* out of recv.
RecvIsWoken == (InRecv /\ count > 0) ~> ~InRecv

\* C40 as claimed: no wake-up is lost, a value enqueued while the receiver
\* is blocked in recv makes it return, and while the receiver keeps
\* receiving every sender blocked in send on the open channel enqueues and
\* returns, whatever the other senders do.
C40_Original ==
    /\ []NoLostWakeUp
    /\ RecvIsWoken
    /\ \A s \in Senders : (InSend(s) /\ ~closed) ~> (~InSend(s) \/ closed)

\* C40 amended: no wake-up is lost, a value enqueued while the receiver is
\* blocked in recv makes it return, and a sender blocked in send beside a free
\* slot of the open channel enqueues and returns unless the ring is full
\* again by the time it runs, another sender having taken the slot.
C40_NoLostWakeUps ==
    /\ []NoLostWakeUp
    /\ RecvIsWoken
    /\ \A s \in Senders :
          (InSend(s) /\ count < capacity /\ ~closed)
              ~> (~InSend(s) \/ count = capacity \/ closed)

\* A blocked send has returned with its value in the ring after the receiver
\* freed the slot, in a run that has gone past one restart of the histories
\* while a sender slept.
C40_Witness ==
    /\ last.op = "send" /\ ~closed /\ count = capacity
    /\ recvd # <<>> /\ nsend = 0

====
